---- MODULE Spec2Model ----
(***************************************************************************)
(* A model of zylisp/lang: the S-expression values (sexpr), the lexical    *)
(* environment (interpreter.Env) and the evaluator (interpreter.Eval).     *)
(*                                                                         *)
(* Environments are heap objects.  The heap is a sequence of Env structs;  *)
(* an *Env is an index into it and the nil pointer is 0.  A closure holds  *)
(* the index of the environment it captured.                               *)
(***************************************************************************)
EXTENDS Integers, Sequences, FiniteSets, TLC

VARIABLES
    heap,      \* every Env allocated so far (NewEnv), by address
    handles,   \* the addresses the host program holds (results of NewEnv/Extend)
    last       \* the last operation the host ran, its inputs and its outcome

vars == <<heap, handles, last>>

(***************************************************************************)
(* Bounds of the model.                                                    *)
(***************************************************************************)
MaxScopes == 2     \* environments the host allocates in SpecEnv
MaxEnvs == 5       \* environments allocated (host scopes and call frames) in Spec
MaxHandles == 2    \* environments the host allocates itself in Spec
MaxArgs == 4       \* arguments passed to a primitive in SpecPrim
MaxKeys == 4       \* keys the host types into the source text in SpecRead

(***************************************************************************)
(* sexpr: the value variants.                                              *)
(***************************************************************************)
Number(n) == [tag |-> "number", n |-> n]
Symbol(s) == [tag |-> "symbol", name |-> s]
String(cs) == [tag |-> "string", chars |-> cs]
Bool(b) == [tag |-> "bool", b |-> b]
Nil == [tag |-> "nil"]
List(es) == [tag |-> "list", elems |-> es]
Func(ps, body, env) == [tag |-> "func", params |-> ps, body |-> body, env |-> env]
Primitive(name) == [tag |-> "primitive", prim |-> name]

\* Go's nil interface value (the SExpr returned beside an error) and nil error.
NoValue == [tag |-> "none"]
NoError == [kind |-> "none", what |-> "", nums |-> <<>>]
\* fmt.Errorf: the message's fixed text, the name it formats (%s) and the numbers
\* it formats (%d), in order.
Errorf(kind, what, nums) == [kind |-> kind, what |-> what, nums |-> nums]

Ok(v, h, log) == [ok |-> TRUE, val |-> v, err |-> NoError, heap |-> h, log |-> log]
Fail(e, h, log) == [ok |-> FALSE, val |-> NoValue, err |-> e, heap |-> h, log |-> log]

(***************************************************************************)
(* interpreter.Env                                                         *)
(***************************************************************************)
NilEnv == 0

\* make(map[string]sexpr.SExpr)
EmptyBindings == [n \in {} |-> NoValue]

\* bindings[name] = value on a Go map
MapPut(b, name, value) ==
    [n \in (DOMAIN b) \cup {name} |-> IF n = name THEN value ELSE b[n]]

EnvStruct(bindings, parent) == [bindings |-> bindings, parent |-> parent]

\* NewEnv allocates; the new environment's address is Len(h) + 1.
NewEnv(parent, h) == Append(h, EnvStruct(EmptyBindings, parent))

\* A Define that overwrites the parent's binding of the name when there is one.
DefineOverwritesParent(e, name, value, h) ==
    LET t == IF h[e].parent # NilEnv /\ name \in DOMAIN h[h[e].parent].bindings
             THEN h[e].parent ELSE e
    IN  [h EXCEPT ![t] = EnvStruct(MapPut(h[t].bindings, name, value), h[t].parent)]

Define(e, name, value, h) ==
    [h EXCEPT ![e] = EnvStruct(MapPut(h[e].bindings, name, value), h[e].parent)]

\* A Set that searches the parent chain before the receiver's own scope.
RECURSIVE SetOutermost(_, _, _, _)
SetOutermost(e, name, value, h) ==
    LET up == IF h[e].parent # NilEnv
              THEN SetOutermost(h[e].parent, name, value, h)
              ELSE Fail(Errorf("undefined variable", name, <<>>), h, <<>>)
    IN  IF up.ok THEN up
        ELSE IF name \in DOMAIN h[e].bindings
             THEN Ok(NoValue, Define(e, name, value, h), <<>>)
             ELSE up

\* A Set that binds the name in the root scope when no scope binds it.
RECURSIVE SetOrCreate(_, _, _, _)
SetOrCreate(e, name, value, h) ==
    IF name \in DOMAIN h[e].bindings \/ h[e].parent = NilEnv
    THEN Ok(NoValue, Define(e, name, value, h), <<>>)
    ELSE SetOrCreate(h[e].parent, name, value, h)

RECURSIVE Set(_, _, _, _)
Set(e, name, value, h) ==
    IF name \in DOMAIN h[e].bindings
    THEN Ok(NoValue, Define(e, name, value, h), <<>>)
    ELSE IF h[e].parent # NilEnv
         THEN Set(h[e].parent, name, value, h)
         ELSE Fail(Errorf("undefined variable", name, <<>>), h, <<>>)

\* A Lookup that prefers the outermost binding of the name.
RECURSIVE LookupOutermost(_, _, _)
LookupOutermost(e, name, h) ==
    LET up == IF h[e].parent # NilEnv
              THEN LookupOutermost(h[e].parent, name, h)
              ELSE Fail(Errorf("undefined variable", name, <<>>), h, <<>>)
    IN  IF up.ok THEN up
        ELSE IF name \in DOMAIN h[e].bindings
             THEN Ok(h[e].bindings[name], h, <<>>)
             ELSE up

RECURSIVE Lookup(_, _, _)
Lookup(e, name, h) ==
    IF name \in DOMAIN h[e].bindings
    THEN Ok(h[e].bindings[name], h, <<>>)
    ELSE IF h[e].parent # NilEnv
         THEN Lookup(h[e].parent, name, h)
         ELSE Fail(Errorf("undefined variable", name, <<>>), h, <<>>)

\* An Extend that returns an environment without a parent.
ExtendDetached(e, h) == NewEnv(NilEnv, h)

Extend(e, h) == NewEnv(e, h)

(***************************************************************************)
(* interpreter.Eval.  Every operator takes the heap and returns the heap   *)
(* it leaves behind beside Go's (value, error) pair.  The log is a         *)
(* history of the run, kept for stating properties: one "enter" and one    *)
(* "exit" event per call of Eval (with the recursion depth, and the heap at *)
(* the exit) and, per closure application, a "call" event (the closure,    *)
(* the arguments, the calling environment, the heap before the call) and a *)
(* "bind" event (the new environment, the heap once the parameters are     *)
(* bound).                                                                 *)
(***************************************************************************)
Event(ev, d, expr, env, r, h, fn, args) ==
    [ev |-> ev, depth |-> d, expr |-> expr, env |-> env,
     ok |-> r.ok, val |-> r.val, err |-> r.err, h |-> h, fn |-> fn, args |-> args]

Pending == Ok(NoValue, <<>>, <<>>)

EnterEvent(expr, env, h, d) == Event("enter", d, expr, env, Pending, <<>>, NoValue, <<>>)
ExitEvent(expr, env, r, d) == Event("exit", d, expr, env, r, r.heap, NoValue, <<>>)
CallEvent(fn, args, env, h, d) == Event("call", d, NoValue, env, Pending, h, fn, args)
BindEvent(fn, args, funcEnv, h, d) == Event("bind", d, NoValue, funcEnv, Pending, h, fn, args)

\* An isTruthy that also takes 0, "" and the empty list for false.
isTruthyEmptyFalse(value) ==
    CASE value.tag = "bool" -> value.b
      [] value.tag = "nil" -> FALSE
      [] value.tag = "number" -> value.n # 0
      [] value.tag = "string" -> value.chars # <<>>
      [] value.tag = "list" -> value.elems # <<>>
      [] OTHER -> TRUE

isTruthy(value) ==
    CASE value.tag = "bool" -> value.b
      [] value.tag = "nil" -> FALSE
      [] OTHER -> TRUE

\* The primitives' native functions (sexpr.Primitive.Fn).  None of them reads
\* or changes an environment, so they return no heap.  Number values are far
\* from the limits of int64 in every program of this model.
Value(v) == Ok(v, <<>>, <<>>)
Error(kind, nums) == Fail(Errorf(kind, "", nums), <<>>, <<>>)

\* The loops of primAdd and primMul over args[i..] with the accumulator acc.
RECURSIVE addLoop(_, _, _)
addLoop(args, i, sum) ==
    IF i > Len(args) THEN Value(Number(sum))
    ELSE IF args[i].tag # "number" THEN Error("+: expected number", <<>>)
    ELSE addLoop(args, i + 1, sum + args[i].n)

primAdd(args) ==
    IF Len(args) = 0 THEN Value(Number(0)) ELSE addLoop(args, 1, 0)

RECURSIVE subLoop(_, _, _)
subLoop(args, i, result) ==
    IF i > Len(args) THEN Value(Number(result))
    ELSE IF args[i].tag # "number" THEN Error("-: expected number", <<>>)
    ELSE subLoop(args, i + 1, result - args[i].n)

primSub(args) ==
    IF Len(args) = 0 THEN Error("-: requires at least 1 argument", <<>>)
    ELSE IF args[1].tag # "number" THEN Error("-: expected number", <<>>)
    ELSE IF Len(args) = 1 THEN Value(Number(-args[1].n))
    ELSE subLoop(args, 2, args[1].n)

RECURSIVE mulLoop(_, _, _)
mulLoop(args, i, product) ==
    IF i > Len(args) THEN Value(Number(product))
    ELSE IF args[i].tag # "number" THEN Error("*: expected number", <<>>)
    ELSE mulLoop(args, i + 1, product * args[i].n)

primMul(args) ==
    IF Len(args) = 0 THEN Value(Number(1)) ELSE mulLoop(args, 1, 1)

\* A division that rounds the quotient down (toward minus infinity).
QuotientFloor(a, b) ==
    LET q == (IF a < 0 THEN -a ELSE a) \div (IF b < 0 THEN -b ELSE b)
        exact == q * (IF b < 0 THEN -b ELSE b) = (IF a < 0 THEN -a ELSE a)
    IN  IF (a < 0) # (b < 0) THEN (IF exact THEN -q ELSE -(q + 1)) ELSE q

\* Go's integer division: the quotient truncated toward zero.
Quotient(a, b) ==
    LET q == (IF a < 0 THEN -a ELSE a) \div (IF b < 0 THEN -b ELSE b)
    IN  IF (a < 0) # (b < 0) THEN -q ELSE q

RECURSIVE divLoop(_, _, _)
divLoop(args, i, result) ==
    IF i > Len(args) THEN Value(Number(result))
    ELSE IF args[i].tag # "number" THEN Error("/: expected number", <<>>)
    ELSE IF args[i].n = 0 THEN Error("/: division by zero", <<>>)
    ELSE divLoop(args, i + 1, Quotient(result, args[i].n))

\* A primDiv whose zero check also covers the first argument.
primDivChecksAll(args) ==
    IF Len(args) = 0 THEN Error("/: requires at least 1 argument", <<>>)
    ELSE IF args[1].tag # "number" THEN Error("/: expected number", <<>>)
    ELSE IF args[1].n = 0 THEN Error("/: division by zero", <<>>)
    ELSE IF Len(args) = 1 THEN Value(Number(Quotient(1, args[1].n)))
    ELSE divLoop(args, 2, args[1].n)

primDiv(args) ==
    IF Len(args) = 0 THEN Error("/: requires at least 1 argument", <<>>)
    ELSE IF args[1].tag # "number" THEN Error("/: expected number", <<>>)
    ELSE IF Len(args) = 1
    THEN IF args[1].n = 0 THEN Error("/: division by zero", <<>>)
         ELSE Value(Number(Quotient(1, args[1].n)))
    ELSE divLoop(args, 2, args[1].n)

primEq(args) ==
    IF Len(args) # 2 THEN Error("=: requires 2 arguments", <<Len(args)>>)
    ELSE IF args[1].tag # "number" \/ args[2].tag # "number"
    THEN Error("=: expected numbers", <<>>)
    ELSE Value(Bool(args[1].n = args[2].n))

primLt(args) ==
    IF Len(args) # 2 THEN Error("<: requires 2 arguments", <<Len(args)>>)
    ELSE IF args[1].tag # "number" \/ args[2].tag # "number"
    THEN Error("<: expected numbers", <<>>)
    ELSE Value(Bool(args[1].n < args[2].n))

primGt(args) ==
    IF Len(args) # 2 THEN Error(">: requires 2 arguments", <<Len(args)>>)
    ELSE IF args[1].tag # "number" \/ args[2].tag # "number"
    THEN Error(">: expected numbers", <<>>)
    ELSE Value(Bool(args[1].n > args[2].n))

primLte(args) ==
    IF Len(args) # 2 THEN Error("<=: requires 2 arguments", <<Len(args)>>)
    ELSE IF args[1].tag # "number" \/ args[2].tag # "number"
    THEN Error("<=: expected numbers", <<>>)
    ELSE Value(Bool(args[1].n <= args[2].n))

primGte(args) ==
    IF Len(args) # 2 THEN Error(">=: requires 2 arguments", <<Len(args)>>)
    ELSE IF args[1].tag # "number" \/ args[2].tag # "number"
    THEN Error(">=: expected numbers", <<>>)
    ELSE Value(Bool(args[1].n >= args[2].n))

primList(args) == Value(List(args))

primCar(args) ==
    IF Len(args) # 1 THEN Error("car: requires 1 argument", <<Len(args)>>)
    ELSE IF args[1].tag # "list" THEN Error("car: expected list", <<>>)
    ELSE IF Len(args[1].elems) = 0 THEN Error("car: cannot take car of empty list", <<>>)
    ELSE Value(args[1].elems[1])

primCdr(args) ==
    IF Len(args) # 1 THEN Error("cdr: requires 1 argument", <<Len(args)>>)
    ELSE IF args[1].tag # "list" THEN Error("cdr: expected list", <<>>)
    ELSE IF Len(args[1].elems) = 0 THEN Error("cdr: cannot take cdr of empty list", <<>>)
    ELSE Value(List(Tail(args[1].elems)))

\* A primCons that appends the first argument at the end of the list.
primConsAtEnd(args) ==
    IF Len(args) # 2 THEN Error("cons: requires 2 arguments", <<Len(args)>>)
    ELSE IF args[2].tag # "list" THEN Error("cons: second argument must be a list", <<>>)
    ELSE Value(List(args[2].elems \o <<args[1]>>))

primCons(args) ==
    IF Len(args) # 2 THEN Error("cons: requires 2 arguments", <<Len(args)>>)
    ELSE IF args[2].tag # "list" THEN Error("cons: second argument must be a list", <<>>)
    ELSE Value(List(<<args[1]>> \o args[2].elems))

primIsNumber(args) ==
    IF Len(args) # 1 THEN Error("number?: requires 1 argument", <<Len(args)>>)
    ELSE Value(Bool(args[1].tag = "number"))

primIsSymbol(args) ==
    IF Len(args) # 1 THEN Error("symbol?: requires 1 argument", <<Len(args)>>)
    ELSE Value(Bool(args[1].tag = "symbol"))

primIsList(args) ==
    IF Len(args) # 1 THEN Error("list?: requires 1 argument", <<Len(args)>>)
    ELSE Value(Bool(args[1].tag = "list"))

primIsNull(args) ==
    IF Len(args) # 1 THEN Error("null?: requires 1 argument", <<Len(args)>>)
    ELSE IF args[1].tag # "list" THEN Value(Bool(FALSE))
    ELSE Value(Bool(Len(args[1].elems) = 0))

PrimitiveNames ==
    {"+", "-", "*", "/", "=", "<", ">", "<=", ">=",
     "list", "car", "cdr", "cons", "number?", "symbol?", "list?", "null?"}

\* LoadPrimitives: env.Define(name, makePrimitive(name, fn)) for every primitive.
LoadPrimitives(e, h) ==
    [h EXCEPT ![e] = EnvStruct(
        [n \in (DOMAIN h[e].bindings) \cup PrimitiveNames |->
            IF n \in PrimitiveNames THEN Primitive(n) ELSE h[e].bindings[n]],
        h[e].parent)]

\* f.Fn(args, env): the shipped primitives ignore env and touch no environment.
callPrimitive(f, args, env, h) ==
    LET r == CASE f.prim = "+" -> primAdd(args)
               [] f.prim = "-" -> primSub(args)
               [] f.prim = "*" -> primMul(args)
               [] f.prim = "/" -> primDiv(args)
               [] f.prim = "=" -> primEq(args)
               [] f.prim = "<" -> primLt(args)
               [] f.prim = ">" -> primGt(args)
               [] f.prim = "<=" -> primLte(args)
               [] f.prim = ">=" -> primGte(args)
               [] f.prim = "list" -> primList(args)
               [] f.prim = "car" -> primCar(args)
               [] f.prim = "cdr" -> primCdr(args)
               [] f.prim = "cons" -> primCons(args)
               [] f.prim = "number?" -> primIsNumber(args)
               [] f.prim = "symbol?" -> primIsSymbol(args)
               [] f.prim = "list?" -> primIsList(args)
               [] f.prim = "null?" -> primIsNull(args)
    IN  [r EXCEPT !.heap = h]

\* The parameter loop of applyFunc: funcEnv.Define(param.Name, args[i]) in order.
RECURSIVE bindParams(_, _, _, _, _)
bindParams(params, args, i, funcEnv, h) ==
    IF i > Len(params) THEN h
    ELSE bindParams(params, args, i + 1, funcEnv,
                    Define(funcEnv, params[i].name, args[i], h))

\* The parameter loop of evalLambda: the index of the first element that is
\* not a Symbol, 0 when all are.
RECURSIVE firstNonSymbol(_, _)
firstNonSymbol(elems, i) ==
    IF i > Len(elems) THEN 0
    ELSE IF elems[i].tag # "symbol" THEN i
    ELSE firstNonSymbol(elems, i + 1)

RECURSIVE Eval(_, _, _, _)
RECURSIVE evalList(_, _, _, _)
RECURSIVE evalDefine(_, _, _, _)
RECURSIVE evalIf(_, _, _, _)
RECURSIVE evalApply(_, _, _, _)
RECURSIVE evalArgs(_, _, _, _, _)
RECURSIVE applyFunc(_, _, _, _)

Eval(expr, env, h, d) ==
    LET r == CASE expr.tag \in {"number", "string", "bool", "nil"} -> Ok(expr, h, <<>>)
               [] expr.tag = "symbol" -> Lookup(env, expr.name, h)
               [] expr.tag = "list" -> evalList(expr, env, h, d)
               [] OTHER -> Fail(Errorf("cannot evaluate", "", <<>>), h, <<>>)
    IN  [r EXCEPT !.log = <<EnterEvent(expr, env, h, d)>> \o r.log
                           \o <<ExitEvent(expr, env, r, d)>>]

evalQuote(list, env, h, d) ==
    IF Len(list.elems) # 2
    THEN Fail(Errorf("quote requires 1 argument", "", <<Len(list.elems) - 1>>), h, <<>>)
    ELSE Ok(list.elems[2], h, <<>>)

\* An evalLambda that captures a copy of the environment.
evalLambdaCopy(list, env, h, d) ==
    IF Len(list.elems) # 3
    THEN Fail(Errorf("lambda requires 2 arguments", "", <<Len(list.elems) - 1>>), h, <<>>)
    ELSE IF list.elems[2].tag # "list"
    THEN Fail(Errorf("lambda: parameters must be a list", "", <<>>), h, <<>>)
    ELSE IF firstNonSymbol(list.elems[2].elems, 1) # 0
    THEN Fail(Errorf("lambda: parameter must be a symbol", "", <<>>), h, <<>>)
    ELSE Ok(Func(list.elems[2].elems, list.elems[3], Len(h) + 1), Append(h, h[env]), <<>>)

\* An evalLambda that evaluates the body once when the closure is made.
evalLambdaEager(list, env, h, d) ==
    IF Len(list.elems) # 3
    THEN Fail(Errorf("lambda requires 2 arguments", "", <<Len(list.elems) - 1>>), h, <<>>)
    ELSE IF list.elems[2].tag # "list"
    THEN Fail(Errorf("lambda: parameters must be a list", "", <<>>), h, <<>>)
    ELSE IF firstNonSymbol(list.elems[2].elems, 1) # 0
    THEN Fail(Errorf("lambda: parameter must be a symbol", "", <<>>), h, <<>>)
    ELSE LET body == Eval(list.elems[3], env, h, d + 1) IN
         IF ~body.ok THEN body
         ELSE Ok(Func(list.elems[2].elems, list.elems[3], env), body.heap, body.log)

evalLambda(list, env, h, d) ==
    IF Len(list.elems) # 3
    THEN Fail(Errorf("lambda requires 2 arguments", "", <<Len(list.elems) - 1>>), h, <<>>)
    ELSE IF list.elems[2].tag # "list"
    THEN Fail(Errorf("lambda: parameters must be a list", "", <<>>), h, <<>>)
    ELSE IF firstNonSymbol(list.elems[2].elems, 1) # 0
    THEN Fail(Errorf("lambda: parameter must be a symbol", "", <<>>), h, <<>>)
    ELSE Ok(Func(list.elems[2].elems, list.elems[3], env), h, <<>>)

\* An evalDefine that checks the name only after evaluating the value.
evalDefineLateCheck(list, env, h, d) ==
    IF Len(list.elems) # 3
    THEN Fail(Errorf("define requires 2 arguments", "", <<Len(list.elems) - 1>>), h, <<>>)
    ELSE LET value == Eval(list.elems[3], env, h, d + 1) IN
         IF ~value.ok THEN value
         ELSE IF list.elems[2].tag # "symbol"
         THEN Fail(Errorf("define: first argument must be a symbol", "", <<>>),
                   value.heap, value.log)
         ELSE Ok(value.val, Define(env, list.elems[2].name, value.val, value.heap), value.log)

\* An evalDefine that binds the name to Nil before it evaluates the value.
evalDefineBindsFirst(list, env, h, d) ==
    IF Len(list.elems) # 3
    THEN Fail(Errorf("define requires 2 arguments", "", <<Len(list.elems) - 1>>), h, <<>>)
    ELSE IF list.elems[2].tag # "symbol"
    THEN Fail(Errorf("define: first argument must be a symbol", "", <<>>), h, <<>>)
    ELSE LET value == Eval(list.elems[3], env, Define(env, list.elems[2].name, Nil, h), d + 1) IN
         IF ~value.ok THEN value
         ELSE Ok(value.val, Define(env, list.elems[2].name, value.val, value.heap), value.log)

evalDefine(list, env, h, d) ==
    IF Len(list.elems) # 3
    THEN Fail(Errorf("define requires 2 arguments", "", <<Len(list.elems) - 1>>), h, <<>>)
    ELSE IF list.elems[2].tag # "symbol"
    THEN Fail(Errorf("define: first argument must be a symbol", "", <<>>), h, <<>>)
    ELSE LET value == Eval(list.elems[3], env, h, d + 1) IN
         IF ~value.ok THEN value
         ELSE Ok(value.val, Define(env, list.elems[2].name, value.val, value.heap), value.log)

\* An evalIf that evaluates both branches and then selects one.
evalIfBoth(list, env, h, d) ==
    IF Len(list.elems) # 4
    THEN Fail(Errorf("if requires 3 arguments", "", <<Len(list.elems) - 1>>), h, <<>>)
    ELSE LET test == Eval(list.elems[2], env, h, d + 1) IN
         IF ~test.ok THEN test
         ELSE LET then == Eval(list.elems[3], env, test.heap, d + 1)
                  else == Eval(list.elems[4], env, then.heap, d + 1)
                  branch == IF isTruthy(test.val) THEN then ELSE else
              IN  [branch EXCEPT !.heap = else.heap,
                                 !.log = test.log \o then.log \o else.log]

\* An evalIf that takes a failed test for false.
evalIfSwallow(list, env, h, d) ==
    IF Len(list.elems) # 4
    THEN Fail(Errorf("if requires 3 arguments", "", <<Len(list.elems) - 1>>), h, <<>>)
    ELSE LET test == Eval(list.elems[2], env, h, d + 1) IN
         LET branch == IF test.ok /\ isTruthy(test.val)
                       THEN Eval(list.elems[3], env, test.heap, d + 1)
                       ELSE Eval(list.elems[4], env, test.heap, d + 1)
         IN  [branch EXCEPT !.log = test.log \o branch.log]

evalIf(list, env, h, d) ==
    IF Len(list.elems) # 4
    THEN Fail(Errorf("if requires 3 arguments", "", <<Len(list.elems) - 1>>), h, <<>>)
    ELSE LET test == Eval(list.elems[2], env, h, d + 1) IN
         IF ~test.ok THEN test
         ELSE LET branch == IF isTruthy(test.val)
                            THEN Eval(list.elems[3], env, test.heap, d + 1)
                            ELSE Eval(list.elems[4], env, test.heap, d + 1)
              IN  [branch EXCEPT !.log = test.log \o branch.log]

\* An argument loop that evaluates the arguments from right to left.
RECURSIVE evalArgsRightToLeft(_, _, _, _, _)
evalArgsRightToLeft(elems, i, env, h, d) ==
    IF i > Len(elems) THEN Ok(<<>>, h, <<>>)
    ELSE LET rest == evalArgsRightToLeft(elems, i + 1, env, h, d) IN
         IF ~rest.ok THEN rest
         ELSE LET value == Eval(elems[i], env, rest.heap, d + 1) IN
              IF ~value.ok THEN [value EXCEPT !.log = rest.log \o value.log]
              ELSE Ok(<<value.val>> \o rest.val, value.heap, rest.log \o value.log)

\* The argument loop of evalApply over list.Elements[i..]: val is the slice of
\* argument values.
evalArgs(elems, i, env, h, d) ==
    IF i > Len(elems) THEN Ok(<<>>, h, <<>>)
    ELSE LET value == Eval(elems[i], env, h, d + 1) IN
         IF ~value.ok THEN value
         ELSE LET rest == evalArgs(elems, i + 1, env, value.heap, d) IN
              IF ~rest.ok THEN [rest EXCEPT !.log = value.log \o rest.log]
              ELSE Ok(<<value.val>> \o rest.val, rest.heap, value.log \o rest.log)

\* An applyFunc that binds the parameters in the captured environment itself.
applyFuncNoExtend(fn, args, h, d) ==
    IF Len(args) # Len(fn.params)
    THEN Fail(Errorf("function expects arguments", "", <<Len(fn.params), Len(args)>>), h, <<>>)
    ELSE LET funcEnv == fn.env
             bound == bindParams(fn.params, args, 1, funcEnv, h)
             r == Eval(fn.body, funcEnv, bound, d + 1)
         IN  [r EXCEPT !.log = <<BindEvent(fn, args, funcEnv, bound, d)>> \o r.log]

\* An applyFunc that accepts surplus arguments and ignores them.
applyFuncLenient(fn, args, h, d) ==
    IF Len(args) < Len(fn.params)
    THEN Fail(Errorf("function expects arguments", "", <<Len(fn.params), Len(args)>>), h, <<>>)
    ELSE LET funcEnv == Len(h) + 1
             bound == bindParams(fn.params, args, 1, funcEnv, Extend(fn.env, h))
             r == Eval(fn.body, funcEnv, bound, d + 1)
         IN  [r EXCEPT !.log = <<BindEvent(fn, args, funcEnv, bound, d)>> \o r.log]

applyFunc(fn, args, h, d) ==
    IF Len(args) # Len(fn.params)
    THEN Fail(Errorf("function expects arguments", "", <<Len(fn.params), Len(args)>>), h, <<>>)
    ELSE LET funcEnv == Len(h) + 1
             bound == bindParams(fn.params, args, 1, funcEnv, Extend(fn.env, h))
             r == Eval(fn.body, funcEnv, bound, d + 1)
         IN  [r EXCEPT !.log = <<BindEvent(fn, args, funcEnv, bound, d)>> \o r.log]

\* An evalApply with dynamic scoping: the closure runs in a child of the
\* caller's environment.
evalApplyDynamic(list, env, h, d) ==
    LET fn == Eval(list.elems[1], env, h, d + 1) IN
    IF ~fn.ok THEN fn
    ELSE LET args == evalArgs(list.elems, 2, env, fn.heap, d) IN
         IF ~args.ok THEN [args EXCEPT !.log = fn.log \o args.log]
         ELSE LET r == CASE fn.val.tag = "primitive" ->
                              callPrimitive(fn.val, args.val, env, args.heap)
                         [] fn.val.tag = "func" ->
                              LET a == applyFunc([fn.val EXCEPT !.env = env],
                                                 args.val, args.heap, d) IN
                              [a EXCEPT !.log =
                                  <<CallEvent(fn.val, args.val, env, args.heap, d)>> \o a.log]
                         [] OTHER ->
                              Fail(Errorf("not a function", "", <<>>), args.heap, <<>>)
              IN  [r EXCEPT !.log = fn.log \o args.log \o r.log]

evalApply(list, env, h, d) ==
    LET fn == Eval(list.elems[1], env, h, d + 1) IN
    IF ~fn.ok THEN fn
    ELSE LET args == evalArgs(list.elems, 2, env, fn.heap, d) IN
         IF ~args.ok THEN [args EXCEPT !.log = fn.log \o args.log]
         ELSE LET r == CASE fn.val.tag = "primitive" ->
                              callPrimitive(fn.val, args.val, env, args.heap)
                         [] fn.val.tag = "func" ->
                              LET a == applyFunc(fn.val, args.val, args.heap, d) IN
                              [a EXCEPT !.log =
                                  <<CallEvent(fn.val, args.val, env, args.heap, d)>> \o a.log]
                         [] OTHER ->
                              Fail(Errorf("not a function", "", <<>>), args.heap, <<>>)
              IN  [r EXCEPT !.log = fn.log \o args.log \o r.log]

\* An evalList that lets a binding of the head symbol shadow the special form.
evalListShadowable(list, env, h, d) ==
    IF Len(list.elems) = 0 THEN Ok(Nil, h, <<>>)
    ELSE LET first == list.elems[1] IN
         IF first.tag = "symbol" /\ Lookup(env, first.name, h).ok
         THEN evalApply(list, env, h, d)
         ELSE IF first.tag = "symbol" /\ first.name = "define" THEN evalDefine(list, env, h, d)
         ELSE IF first.tag = "symbol" /\ first.name = "lambda" THEN evalLambda(list, env, h, d)
         ELSE IF first.tag = "symbol" /\ first.name = "if" THEN evalIf(list, env, h, d)
         ELSE IF first.tag = "symbol" /\ first.name = "quote" THEN evalQuote(list, env, h, d)
         ELSE evalApply(list, env, h, d)

evalList(list, env, h, d) ==
    IF Len(list.elems) = 0 THEN Ok(Nil, h, <<>>)
    ELSE LET first == list.elems[1] IN
         IF first.tag = "symbol" /\ first.name = "define" THEN evalDefine(list, env, h, d)
         ELSE IF first.tag = "symbol" /\ first.name = "lambda" THEN evalLambda(list, env, h, d)
         ELSE IF first.tag = "symbol" /\ first.name = "if" THEN evalIf(list, env, h, d)
         ELSE IF first.tag = "symbol" /\ first.name = "quote" THEN evalQuote(list, env, h, d)
         ELSE evalApply(list, env, h, d)

(***************************************************************************)
(* parser.Lexer.  A Go string is a sequence of bytes; a byte is written as *)
(* a one-character string and the zero byte that peek returns at the end   *)
(* of the input as NUL.                                                    *)
(***************************************************************************)
NUL == ""

Token(type, value, line, col) == [type |-> type, value |-> value, line |-> line, col |-> col]

NewLexer(input) == [input |-> input, pos |-> 0, line |-> 1, col |-> 1]

isWhitespace(ch) == ch \in {" ", "\t", "\n", "\r"}

isDigit(ch) == ch \in {"0", "1", "2", "3", "4", "5", "6", "7", "8", "9"}

\* unicode.IsLetter on the bytes of the ASCII range.
IsLetter(ch) ==
    ch \in {"a", "b", "c", "d", "e", "f", "g", "h", "i", "j", "k", "l", "m",
            "n", "o", "p", "q", "r", "s", "t", "u", "v", "w", "x", "y", "z"}

isSymbolSpecial(ch) ==
    ch \in {"+", "-", "*", "/", "<", ">", "=", "!", "?", "&", "|", "%", "$", "_"}

isSymbolStart(ch) == IsLetter(ch) \/ isSymbolSpecial(ch)

isSymbolChar(ch) == IsLetter(ch) \/ isDigit(ch) \/ isSymbolSpecial(ch)

isAtEnd(l) == l.pos >= Len(l.input)

peek(l) == IF isAtEnd(l) THEN NUL ELSE l.input[l.pos + 1]

peekNext(l) == IF l.pos + 1 >= Len(l.input) THEN NUL ELSE l.input[l.pos + 2]

advance(l) ==
    IF isAtEnd(l) THEN l
    ELSE IF l.input[l.pos + 1] = "\n"
         THEN [l EXCEPT !.pos = l.pos + 1, !.line = l.line + 1, !.col = 1]
         ELSE [l EXCEPT !.pos = l.pos + 1, !.col = l.col + 1]

\* A Lexer method's effect: the lexer it leaves and the token it returns.
Scanned(l, tok) == [lexer |-> l, tok |-> tok]

makeToken(l, typ, value) == Token(typ, value, l.line, l.col)

makeSingleCharToken(l, typ) ==
    LET after == advance(l) IN
    Scanned(after, Token(typ, <<peek(l)>>, after.line, after.col - 1))

\* The inner loop of skipWhitespaceAndComments: to the end of the line.
RECURSIVE skipComment(_)
skipComment(l) ==
    IF ~isAtEnd(l) /\ peek(l) # "\n" THEN skipComment(advance(l)) ELSE l

RECURSIVE skipWhitespaceAndComments(_)
skipWhitespaceAndComments(l) ==
    IF isAtEnd(l) THEN l
    ELSE IF peek(l) = ";" THEN skipWhitespaceAndComments(skipComment(l))
    ELSE IF isWhitespace(peek(l)) THEN skipWhitespaceAndComments(advance(l))
    ELSE l

\* for !l.isAtEnd() && isDigit(l.peek()) { l.advance() }
RECURSIVE skipDigits(_)
skipDigits(l) ==
    IF ~isAtEnd(l) /\ isDigit(peek(l)) THEN skipDigits(advance(l)) ELSE l

scanNumber(l) ==
    LET start == l.pos
        startCol == l.col
        after == skipDigits(IF peek(l) = "-" THEN advance(l) ELSE l)
    IN  Scanned(after, Token("NUMBER", SubSeq(l.input, start + 1, after.pos),
                             after.line, startCol))

\* for !l.isAtEnd() && isSymbolChar(l.peek()) { l.advance() }
RECURSIVE skipSymbolChars(_)
skipSymbolChars(l) ==
    IF ~isAtEnd(l) /\ isSymbolChar(peek(l)) THEN skipSymbolChars(advance(l)) ELSE l

scanSymbol(l) ==
    LET start == l.pos
        startCol == l.col
        after == skipSymbolChars(l)
        value == SubSeq(l.input, start + 1, after.pos)
    IN  IF value = <<"t", "r", "u", "e">> \/ value = <<"f", "a", "l", "s", "e">>
        THEN Scanned(after, Token("BOOL", value, after.line, startCol))
        ELSE Scanned(after, Token("SYMBOL", value, after.line, startCol))

\* The byte an escape sequence \escaped stands for.
Unescape(escaped) ==
    CASE escaped = "n" -> "\n"
      [] escaped = "t" -> "\t"
      [] escaped = "r" -> "\r"
      [] escaped = "\"" -> "\""
      [] escaped = "\\" -> "\\"
      [] OTHER -> escaped

Unterminated == <<"u", "n", "t", "e", "r", "m", "i", "n", "a", "t", "e", "d", " ",
                  "s", "t", "r", "i", "n", "g">>

\* The loop of scanString, after the opening quote: value is the builder.
RECURSIVE scanStringLoop(_, _, _)
scanStringLoop(l, value, startCol) ==
    IF ~isAtEnd(l) /\ peek(l) # "\""
    THEN IF peek(l) = "\\"
         THEN LET l1 == advance(l) IN
              IF isAtEnd(l1) THEN Scanned(l1, makeToken(l1, "ILLEGAL", Unterminated))
              ELSE scanStringLoop(advance(l1), Append(value, Unescape(peek(l1))), startCol)
         ELSE scanStringLoop(advance(l), Append(value, peek(l)), startCol)
    ELSE IF isAtEnd(l) THEN Scanned(l, makeToken(l, "ILLEGAL", Unterminated))
    ELSE LET after == advance(l) IN
         Scanned(after, Token("STRING", value, after.line, startCol))

scanString(l) == scanStringLoop(advance(l), <<>>, l.col)

nextToken(l0) ==
    LET l == skipWhitespaceAndComments(l0)
        ch == peek(l)
    IN  IF isAtEnd(l) THEN Scanned(l, makeToken(l, "EOF", <<>>))
        ELSE IF ch = "(" THEN makeSingleCharToken(l, "LPAREN")
        ELSE IF ch = ")" THEN makeSingleCharToken(l, "RPAREN")
        ELSE IF ch = "\"" THEN scanString(l)
        ELSE IF isDigit(ch) \/ (ch = "-" /\ peekNext(l) # NUL /\ isDigit(peekNext(l)))
        THEN scanNumber(l)
        ELSE IF isSymbolStart(ch) THEN scanSymbol(l)
        ELSE Scanned(l, makeToken(l, "ILLEGAL", <<ch>>))

\* Go's ([]Token, error) pair.
Tokens(tokens) == [ok |-> TRUE, tokens |-> tokens, err |-> NoError, at |-> <<>>]
IllegalToken(tok) ==
    [ok |-> FALSE, tokens |-> <<>>,
     err |-> Errorf("illegal token", tok.value, <<tok.line, tok.col>>), at |-> tok]

\* The loop of Lexer.Tokenize.
RECURSIVE tokenizeLoop(_, _)
tokenizeLoop(l, tokens) ==
    LET s == nextToken(l) IN
    IF s.tok.type = "EOF" THEN Tokens(Append(tokens, s.tok))
    ELSE IF s.tok.type = "ILLEGAL" THEN IllegalToken(s.tok)
    ELSE tokenizeLoop(s.lexer, Append(tokens, s.tok))

Tokenize(input) == tokenizeLoop(NewLexer(input), <<>>)

(***************************************************************************)
(* parser.Reader                                                           *)
(***************************************************************************)
NewReader(tokens) == [tokens |-> tokens, pos |-> 0]

readerIsAtEnd(r) == r.pos >= Len(r.tokens) \/ r.tokens[r.pos + 1].type = "EOF"

readerPeek(r) ==
    IF readerIsAtEnd(r) THEN Token("EOF", <<>>, 0, 0) ELSE r.tokens[r.pos + 1]

readerAdvance(r) == IF readerIsAtEnd(r) THEN r ELSE [r EXCEPT !.pos = r.pos + 1]

\* Go's (sexpr.SExpr, error) pair and the reader as the call leaves it.
ReadOk(v, r) == [ok |-> TRUE, val |-> v, err |-> NoError, reader |-> r]
ReadFail(kind, tok, r) ==
    [ok |-> FALSE, val |-> NoValue,
     err |-> Errorf(kind, tok.value, <<tok.line, tok.col>>), reader |-> r]

DigitValue(ch) ==
    CASE ch = "0" -> 0 [] ch = "1" -> 1 [] ch = "2" -> 2 [] ch = "3" -> 3 [] ch = "4" -> 4
      [] ch = "5" -> 5 [] ch = "6" -> 6 [] ch = "7" -> 7 [] ch = "8" -> 8 [] ch = "9" -> 9

\* The decimal digits of 1 << 63, the cutoff of strconv.ParseInt for 64 bits.
MaxInt64Digits ==
    <<"9", "2", "2", "3", "3", "7", "2", "0", "3", "6", "8", "5", "4", "7", "7", "5",
      "8", "0", "8">>

RECURSIVE stripZeros(_)
stripZeros(ds) ==
    IF Len(ds) > 1 /\ Head(ds) = "0" THEN stripZeros(Tail(ds)) ELSE ds

\* Two digit strings of the same length, compared as numbers: a < b.
RECURSIVE digitsLess(_, _)
digitsLess(a, b) ==
    IF a = <<>> THEN FALSE
    ELSE IF Head(a) # Head(b) THEN DigitValue(Head(a)) < DigitValue(Head(b))
    ELSE digitsLess(Tail(a), Tail(b))

RECURSIVE digitsNumber(_, _)
digitsNumber(ds, acc) ==
    IF ds = <<>> THEN acc ELSE digitsNumber(Tail(ds), acc * 10 + DigitValue(Head(ds)))

\* strconv.ParseInt(s, 10, 64) on the texts scanNumber makes: an optional
\* minus sign and digits.  The value is out of range when its magnitude
\* reaches 1 << 63 (exceeds it, for a negative one).
ParseInt(str) ==
    LET neg == str # <<>> /\ Head(str) = "-"
        ds == stripZeros(IF neg THEN Tail(str) ELSE str)
        inRange == \/ Len(ds) < Len(MaxInt64Digits)
                   \/ /\ Len(ds) = Len(MaxInt64Digits)
                      /\ \/ digitsLess(ds, MaxInt64Digits)
                         \/ neg /\ ds = MaxInt64Digits
    IN  IF ds = <<>> THEN [ok |-> FALSE, n |-> 0]
        ELSE IF ~inRange THEN [ok |-> FALSE, n |-> 0]
        ELSE [ok |-> TRUE, n |-> IF neg THEN 0 - digitsNumber(ds, 0) ELSE digitsNumber(ds, 0)]

readNumber(r) ==
    LET tok == readerPeek(r)
        value == ParseInt(tok.value)
    IN  IF ~value.ok THEN ReadFail("invalid number", tok, readerAdvance(r))
        ELSE ReadOk(Number(value.n), readerAdvance(r))

readSymbol(r) == ReadOk(Symbol(readerPeek(r).value), readerAdvance(r))

readString(r) == ReadOk(String(readerPeek(r).value), readerAdvance(r))

readBool(r) == ReadOk(Bool(readerPeek(r).value = <<"t", "r", "u", "e">>), readerAdvance(r))

RECURSIVE readExpr(_)
RECURSIVE readListLoop(_, _)

\* The loop of readList, after the opening paren: elements is the slice.
readListLoop(r, elements) ==
    IF ~readerIsAtEnd(r) /\ readerPeek(r).type # "RPAREN"
    THEN LET expr == readExpr(r) IN
         IF ~expr.ok THEN expr
         ELSE readListLoop(expr.reader, Append(elements, expr.val))
    ELSE IF readerIsAtEnd(r) THEN ReadFail("unclosed list", Token("EOF", <<>>, 0, 0), r)
    ELSE ReadOk(List(elements), readerAdvance(r))

readList(r) == readListLoop(readerAdvance(r), <<>>)

readExpr(r) ==
    IF readerIsAtEnd(r)
    THEN ReadFail("unexpected end of input", Token("EOF", <<>>, 0, 0), r)
    ELSE LET tok == readerPeek(r) IN
         CASE tok.type = "LPAREN" -> readList(r)
           [] tok.type = "NUMBER" -> readNumber(r)
           [] tok.type = "SYMBOL" -> readSymbol(r)
           [] tok.type = "STRING" -> readString(r)
           [] tok.type = "BOOL" -> readBool(r)
           [] tok.type = "RPAREN" -> ReadFail("unexpected closing paren", tok, r)
           [] tok.type = "EOF" -> ReadFail("unexpected end of file", tok, r)
           [] OTHER -> ReadFail("unexpected token", tok, r)

\* A Read that returns the first expression and ignores what follows it.
ReadIgnoresRest(tokens) == readExpr(NewReader(tokens))

Read(tokens) ==
    LET expr == readExpr(NewReader(tokens)) IN
    IF ~expr.ok THEN expr
    ELSE IF ~readerIsAtEnd(expr.reader) /\ readerPeek(expr.reader).type # "EOF"
    THEN ReadFail("unexpected token after expression", readerPeek(expr.reader), expr.reader)
    ELSE expr

(***************************************************************************)
(* sexpr: the String methods.                                              *)
(***************************************************************************)
\* strconv's decimal digits of a non-negative integer.
RECURSIVE formatDigits(_)
formatDigits(n) ==
    LET d == <<"0", "1", "2", "3", "4", "5", "6", "7", "8", "9">>[(n % 10) + 1] IN
    IF n < 10 THEN <<d>> ELSE Append(formatDigits(n \div 10), d)

\* fmt.Sprintf("%d", n)
FormatInt(n) == IF n < 0 THEN <<"-">> \o formatDigits(0 - n) ELSE formatDigits(n)

\* strconv.Quote's text for one byte: the quote and the backslash are
\* escaped, a control character is written as its Go escape sequence, any
\* other ASCII character as itself.
appendEscapedRune(ch) ==
    CASE ch = "\"" -> <<"\\", "\"">>
      [] ch = "\\" -> <<"\\", "\\">>
      [] ch = "\n" -> <<"\\", "n">>
      [] ch = "\t" -> <<"\\", "t">>
      [] ch = "\r" -> <<"\\", "r">>
      [] ch = "\f" -> <<"\\", "f">>
      [] OTHER -> <<ch>>

RECURSIVE quoteWith(_)
quoteWith(str) ==
    IF str = <<>> THEN <<>> ELSE appendEscapedRune(Head(str)) \o quoteWith(Tail(str))

\* fmt.Sprintf("%q", s)
Quote(str) == <<"\"">> \o quoteWith(str) \o <<"\"">>

RECURSIVE StringOf(_)
RECURSIVE joinElements(_, _)

\* The loop of List.String over l.Elements[i..].
joinElements(elems, i) ==
    IF i > Len(elems) THEN <<>>
    ELSE (IF i > 1 THEN <<" ">> ELSE <<>>) \o StringOf(elems[i]) \o joinElements(elems, i + 1)

\* v.String(); the name of a primitive is kept in one piece.
StringOf(v) ==
    CASE v.tag = "number" -> FormatInt(v.n)
      [] v.tag = "symbol" -> v.name
      [] v.tag = "string" -> Quote(v.chars)
      [] v.tag = "bool" -> IF v.b THEN <<"t", "r", "u", "e">> ELSE <<"f", "a", "l", "s", "e">>
      [] v.tag = "nil" -> <<"n", "i", "l">>
      [] v.tag = "list" ->
           IF Len(v.elems) = 0 THEN <<"(", ")">>
           ELSE <<"(">> \o joinElements(v.elems, 1) \o <<")">>
      [] v.tag = "func" -> <<"<", "f", "u", "n", "c", "t", "i", "o", "n", ">">>
      [] v.tag = "primitive" -> <<"<", "p", "r", "i", "m", "i", "t", "i", "v", "e", ":",
                                  v.prim, ">">>

(***************************************************************************)
(* The host program: what it ran last.                                     *)
(***************************************************************************)
Ran(op, e, name, arg, expr, r, pre) ==
    [op |-> op, env |-> e, name |-> name, arg |-> arg, expr |-> expr,
     ok |-> r.ok, val |-> r.val, err |-> r.err, log |-> r.log, pre |-> pre]

Init ==
    /\ heap = NewEnv(NilEnv, <<>>)
    /\ handles = {1}
    /\ last = Ran("NewEnv", NilEnv, "", NoValue, NoValue, Ok(NoValue, <<>>, <<>>), <<>>)

(***************************************************************************)
(* SpecEnv: a host that drives the environment API directly.               *)
(***************************************************************************)
EnvNames == {"x", "y"}
EnvValues == {Number(42), Number(17)}

DoNewEnv ==
    /\ Len(heap) < MaxScopes
    /\ heap' = NewEnv(NilEnv, heap)
    /\ handles' = handles \cup {Len(heap) + 1}
    /\ last' = Ran("NewEnv", NilEnv, "", NoValue, NoValue, Ok(NoValue, heap', <<>>), heap)

DoExtend(e) ==
    /\ Len(heap) < MaxScopes
    /\ heap' = Extend(e, heap)
    /\ handles' = handles \cup {Len(heap) + 1}
    /\ last' = Ran("Extend", e, "", NoValue, NoValue, Ok(NoValue, heap', <<>>), heap)

DoDefine(e, name, value) ==
    /\ heap' = Define(e, name, value, heap)
    /\ last' = Ran("Define", e, name, value, NoValue, Ok(NoValue, heap', <<>>), heap)
    /\ UNCHANGED handles

DoSet(e, name, value) ==
    LET r == Set(e, name, value, heap) IN
    /\ heap' = r.heap
    /\ last' = Ran("Set", e, name, value, NoValue, r, heap)
    /\ UNCHANGED handles

DoLookup(e, name) ==
    LET r == Lookup(e, name, heap) IN
    /\ last' = Ran("Lookup", e, name, NoValue, NoValue, r, heap)
    /\ UNCHANGED <<heap, handles>>

NextEnv ==
    \/ DoNewEnv
    \/ \E e \in handles : DoExtend(e)
    \/ \E e \in handles, name \in EnvNames, value \in EnvValues : DoDefine(e, name, value)
    \/ \E e \in handles, name \in EnvNames, value \in EnvValues : DoSet(e, name, value)
    \/ \E e \in handles, name \in EnvNames : DoLookup(e, name)

SpecEnv == Init /\ [][NextEnv]_vars

(***************************************************************************)
(* Spec: a host (a REPL or file runner) that evaluates top-level forms in  *)
(* the environments it holds.                                              *)
(***************************************************************************)
\* The environments a value points to: the captured environment of every
\* closure in it.
RECURSIVE EnvRefs(_)
EnvRefs(v) ==
    CASE v.tag = "func" -> {v.env}
      [] v.tag = "list" -> UNION {EnvRefs(v.elems[i]) : i \in DOMAIN v.elems}
      [] OTHER -> {}

\* The environments reachable from the roots through parent links and
\* through the closures bound in reachable environments.
RECURSIVE Reachable(_, _)
Reachable(h, roots) ==
    LET more == (roots \cup {h[e].parent : e \in roots}
                       \cup UNION {UNION {EnvRefs(h[e].bindings[n]) :
                                            n \in DOMAIN h[e].bindings} : e \in roots})
                \ {NilEnv}
    IN  IF more = roots THEN roots ELSE Reachable(h, more)

\* Go's garbage collector reclaims an Env that no pointer reaches: the call
\* frames at the end of the heap that neither the host's environments nor
\* the returned value lead to are dropped when a top-level Eval returns.
RECURSIVE Collect(_, _)
Collect(h, live) ==
    IF Len(h) > 0 /\ Len(h) \notin live
    THEN Collect(SubSeq(h, 1, Len(h) - 1), live)
    ELSE h

\* Constructors of program text.
Lambda(params, body) == List(<<Symbol("lambda"), List(params), body>>)
DefineForm(name, expr) == List(<<Symbol("define"), Symbol(name), expr>>)
IfForm(test, then, else) == List(<<Symbol("if"), test, then, else>>)
QuoteForm(expr) == List(<<Symbol("quote"), expr>>)

\* (define x 1), (define x 2), (define f (lambda () x)), (f)
DefineX1 == DefineForm("x", Number(1))
DefineX2 == DefineForm("x", Number(2))
DefineF == DefineForm("f", Lambda(<<>>, Symbol("x")))
CallF == List(<<Symbol("f")>>)
\* ((lambda (x) (f)) 2)
CallFShadowed == List(<<Lambda(<<Symbol("x")>>, CallF), Number(2)>>)
\* ((lambda (g a) (g)) (lambda () x) (define x 2))
RedefineThenCall ==
    List(<<Lambda(<<Symbol("g"), Symbol("a")>>, List(<<Symbol("g")>>)),
           Lambda(<<>>, Symbol("x")), DefineX2>>)
\* ((lambda (y) (define x y)) 3)
DefineInBody == List(<<Lambda(<<Symbol("y")>>, DefineForm("x", Symbol("y"))), Number(3)>>)
\* ((lambda (h) (if (h true) (h false) 0)) (lambda (y) (if y (define z 1) z)))
TwoCalls ==
    List(<<Lambda(<<Symbol("h")>>,
                  IfForm(List(<<Symbol("h"), Bool(TRUE)>>),
                         List(<<Symbol("h"), Bool(FALSE)>>), Number(0))),
           Lambda(<<Symbol("y")>>,
                  IfForm(Symbol("y"), DefineForm("z", Number(1)), Symbol("z")))>>)

ClosurePrograms ==
    {DefineX1, DefineX2, DefineF, CallF, CallFShadowed, RedefineThenCall,
     DefineInBody, TwoCalls}

\* (if true 1 (define x 2)), (if false foo 2), (if () (define x 1) (define x 2)),
\* (if foo (define x 1) (define x 2)), (if x foo (define x 1))
IfPrograms ==
    {IfForm(Bool(TRUE), Number(1), DefineX2),
     IfForm(Bool(FALSE), Symbol("foo"), Number(2)),
     IfForm(List(<<>>), DefineX1, DefineX2),
     IfForm(Symbol("foo"), DefineX1, DefineX2),
     IfForm(Symbol("x"), Symbol("foo"), DefineX1)}

\* The test expressions of (if test 1 2): 0, "", (quote ()), (lambda () 1),
\* car, nil, (), false, true, x, (quote (1))
TestExprs ==
    {Number(0), String(<<>>), QuoteForm(List(<<>>)), Lambda(<<>>, Number(1)),
     Symbol("car"), Nil, List(<<>>), Bool(FALSE), Bool(TRUE), Symbol("x"),
     QuoteForm(List(<<Number(1)>>))}

TruthPrograms == {IfForm(t, Number(1), Number(2)) : t \in TestExprs}

\* (foo (define x 2)), ((lambda (a b) b) (define x 2) x),
\* ((lambda (a b c) a) 1 foo (define x 2)), (list x (define x 1) x),
\* (1 2), (car (quote ())), (foo 1 2)
ApplyPrograms ==
    {List(<<Symbol("foo"), DefineX2>>),
     List(<<Lambda(<<Symbol("a"), Symbol("b")>>, Symbol("b")), DefineX2, Symbol("x")>>),
     List(<<Lambda(<<Symbol("a"), Symbol("b"), Symbol("c")>>, Symbol("a")),
            Number(1), Symbol("foo"), DefineX2>>),
     List(<<Symbol("list"), Symbol("x"), DefineX1, Symbol("x")>>),
     List(<<Number(1), Number(2)>>),
     List(<<Symbol("car"), QuoteForm(List(<<>>))>>),
     List(<<Symbol("foo"), Number(1), Number(2)>>)}

\* ((lambda (x) x) 1 2), ((lambda (a b) (define x 1)) 1), ((lambda () 1) 2),
\* ((lambda (a b) (list b a)) 1 2)
ArityPrograms ==
    {List(<<Lambda(<<Symbol("x")>>, Symbol("x")), Number(1), Number(2)>>),
     List(<<Lambda(<<Symbol("a"), Symbol("b")>>, DefineX1), Number(1)>>),
     List(<<Lambda(<<>>, Number(1)), Number(2)>>),
     List(<<Lambda(<<Symbol("a"), Symbol("b")>>,
                   List(<<Symbol("list"), Symbol("b"), Symbol("a")>>)),
            Number(1), Number(2)>>)}

\* (define), (define x), (define x (define x 2) 1), (define 1 (define x 2)),
\* (define (x) 1), (lambda), (lambda (x)), (lambda (x) x x),
\* (lambda x (define x 1)), (lambda (1) x), (lambda (x (y)) x), (if),
\* (if true (define x 1)), (if (define x 1) 1 2 3), (quote), (quote x x),
\* (list (define x 1) (if true 1))
MalformedPrograms ==
    {List(<<Symbol("define")>>),
     List(<<Symbol("define"), Symbol("x")>>),
     List(<<Symbol("define"), Symbol("x"), DefineX2, Number(1)>>),
     List(<<Symbol("define"), Number(1), DefineX2>>),
     List(<<Symbol("define"), List(<<Symbol("x")>>), Number(1)>>),
     List(<<Symbol("lambda")>>),
     List(<<Symbol("lambda"), List(<<Symbol("x")>>)>>),
     List(<<Symbol("lambda"), List(<<Symbol("x")>>), Symbol("x"), Symbol("x")>>),
     List(<<Symbol("lambda"), Symbol("x"), DefineX1>>),
     List(<<Symbol("lambda"), List(<<Number(1)>>), Symbol("x")>>),
     List(<<Symbol("lambda"), List(<<Symbol("x"), List(<<Symbol("y")>>)>>), Symbol("x")>>),
     List(<<Symbol("if")>>),
     List(<<Symbol("if"), Bool(TRUE), DefineX1>>),
     List(<<Symbol("if"), DefineX1, Number(1), Number(2), Number(3)>>),
     List(<<Symbol("quote")>>),
     List(<<Symbol("quote"), Symbol("x"), Symbol("x")>>),
     List(<<Symbol("list"), DefineX1, List(<<Symbol("if"), Bool(TRUE), Number(1)>>)>>)}

\* (define x (car (quote ()))), ((lambda (a) (/ a 0)) 1), (if true (foo) 2),
\* (define x (if (car 1) 1 2)), (list 1 (/ 1 0)), (define x (foo)),
\* ((lambda (a) ((lambda (b) (if b foo 1)) a)) 1), ((if true foo 1) 2)
FailingPrograms ==
    {DefineForm("x", List(<<Symbol("car"), QuoteForm(List(<<>>))>>)),
     List(<<Lambda(<<Symbol("a")>>, List(<<Symbol("/"), Symbol("a"), Number(0)>>)),
            Number(1)>>),
     IfForm(Bool(TRUE), List(<<Symbol("foo")>>), Number(2)),
     DefineForm("x", IfForm(List(<<Symbol("car"), Number(1)>>), Number(1), Number(2))),
     List(<<Symbol("list"), Number(1), List(<<Symbol("/"), Number(1), Number(0)>>)>>),
     DefineForm("x", List(<<Symbol("foo")>>)),
     List(<<Lambda(<<Symbol("a")>>,
                   List(<<Lambda(<<Symbol("b")>>,
                                 IfForm(Symbol("b"), Symbol("foo"), Number(1))),
                          Symbol("a")>>)),
            Number(1)>>),
     List(<<IfForm(Bool(TRUE), Symbol("foo"), Number(1)), Number(2)>>)}

\* (lambda (a b) (foo a)), (lambda () (define x 1)), (lambda (a) (car 1)),
\* (define x (lambda (a) (define x a))), ((lambda (a) (if (lambda () foo) a 2)) 1)
LambdaPrograms ==
    {Lambda(<<Symbol("a"), Symbol("b")>>, List(<<Symbol("foo"), Symbol("a")>>)),
     Lambda(<<>>, DefineX1),
     Lambda(<<Symbol("a")>>, List(<<Symbol("car"), Number(1)>>)),
     DefineForm("x", Lambda(<<Symbol("a")>>, DefineForm("x", Symbol("a")))),
     List(<<Lambda(<<Symbol("a")>>,
                   IfForm(Lambda(<<>>, Symbol("foo")), Symbol("a"), Number(2))),
            Number(1)>>)}

\* (define if 5), (define quote car), (define define (lambda (a b) b)),
\* ((lambda (if) (if false 1 if)) 7), ((lambda (a) (quote a)) 1),
\* ((lambda (lambda) (if (lambda (a) a) lambda 2)) 1)
ReservedPrograms ==
    {DefineForm("if", Number(5)),
     DefineForm("quote", Symbol("car")),
     DefineForm("define", Lambda(<<Symbol("a"), Symbol("b")>>, Symbol("b"))),
     List(<<Lambda(<<Symbol("if")>>, IfForm(Bool(FALSE), Number(1), Symbol("if"))),
            Number(7)>>),
     List(<<Lambda(<<Symbol("a")>>, QuoteForm(Symbol("a"))), Number(1)>>),
     List(<<Lambda(<<Symbol("lambda")>>,
                   IfForm(Lambda(<<Symbol("a")>>, Symbol("a")), Symbol("lambda"), Number(2))),
            Number(1)>>)}

\* (define x (if (define x 2) (foo) 1)), (define x (if (define x 2) 1 (foo))),
\* ((lambda (x) (define x (foo))) 1), ((lambda (y) (define x y)) 3)
DefinePrograms ==
    {DefineForm("x", IfForm(DefineX2, List(<<Symbol("foo")>>), Number(1))),
     DefineForm("x", IfForm(DefineX2, Number(1), List(<<Symbol("foo")>>))),
     List(<<Lambda(<<Symbol("x")>>, DefineForm("x", List(<<Symbol("foo")>>))), Number(1)>>),
     DefineInBody}

FormPrograms ==
    {DefineX1, DefineX2} \cup IfPrograms \cup TruthPrograms \cup ApplyPrograms
        \cup ArityPrograms \cup MalformedPrograms \cup FailingPrograms
        \cup LambdaPrograms \cup ReservedPrograms \cup DefinePrograms

HostExtend(e) ==
    /\ Cardinality(handles) < MaxHandles
    /\ Len(heap) < MaxEnvs
    /\ heap' = Extend(e, heap)
    /\ handles' = handles \cup {Len(heap) + 1}
    /\ last' = Ran("Extend", e, "", NoValue, NoValue, Ok(NoValue, heap', <<>>), heap)

HostLoadPrimitives(e) ==
    /\ heap[e].parent = NilEnv
    /\ heap' = LoadPrimitives(e, heap)
    /\ last' = Ran("LoadPrimitives", e, "", NoValue, NoValue, Ok(NoValue, heap', <<>>), heap)
    /\ UNCHANGED handles

HostEval(expr, e) ==
    LET r == Eval(expr, e, heap, 0) IN
    /\ Len(r.heap) <= MaxEnvs
    /\ heap' = Collect(r.heap, Reachable(r.heap, handles \cup EnvRefs(r.val)))
    /\ last' = Ran("Eval", e, "", NoValue, expr, r, heap)
    /\ UNCHANGED handles

\* Spec: closures, evaluated in the global environment and in scopes the host
\* extends from it.
Next ==
    \/ \E e \in handles : HostExtend(e)
    \/ \E e \in handles, expr \in ClosurePrograms : HostEval(expr, e)

Spec == Init /\ [][Next]_vars

\* SpecForms: conditionals and applications, evaluated in a global environment
\* with or without the primitives loaded.
NextForms ==
    \/ \E e \in handles : HostLoadPrimitives(e)
    \/ \E e \in handles, expr \in FormPrograms : HostEval(expr, e)

SpecForms == Init /\ [][NextForms]_vars

(***************************************************************************)
(* SpecPrim: a host that calls the primitives' native functions on         *)
(* argument slices.                                                        *)
(***************************************************************************)
ArithNames == {"+", "-", "*", "/"}
ListNames == {"list", "car", "cdr", "cons"}

ArithValues ==
    {Number(-7), Number(0), Number(1), Number(2), Number(3), Number(4),
     Number(10), Number(24)}
ListValues ==
    {Number(1), Symbol("a"), List(<<>>), List(<<Number(1)>>),
     List(<<Symbol("a"), List(<<>>)>>)}

\* The argument slices of at most n values of S.
ArgSlices(S, n) == UNION {[1..k -> S] : k \in 0..n}

\* The host has a primitive and an argument slice at hand.
InitPrim ==
    /\ heap = NewEnv(NilEnv, <<>>)
    /\ handles = {1}
    /\ \/ \E name \in ArithNames, args \in ArgSlices(ArithValues, MaxArgs) :
             last = Ran("Args", 1, name, args, NoValue, Pending, <<>>)
       \/ \E name \in ListNames, args \in ArgSlices(ListValues, MaxArgs - 1) :
             last = Ran("Args", 1, name, args, NoValue, Pending, <<>>)
       \/ \E name \in ArithNames, v \in ListValues, n \in ArithValues, k \in 1..2 :
             last = Ran("Args", 1, name, IF k = 1 THEN <<v, n>> ELSE <<n, v>>,
                        NoValue, Pending, <<>>)

\* f.Fn(args, env) on the global environment.
DoPrimitive ==
    LET r == callPrimitive(Primitive(last.name), last.arg, last.env, heap) IN
    /\ last.op = "Args"
    /\ heap' = r.heap
    /\ last' = Ran("Primitive", last.env, last.name, last.arg, NoValue, r, heap)
    /\ UNCHANGED handles

NextPrim == DoPrimitive

SpecPrim == InitPrim /\ [][NextPrim]_vars

(***************************************************************************)
(* SpecRead: a host that edits a source text and reads it, as the tests    *)
(* and a REPL do: Tokenize, then Read when Tokenize returned no error.     *)
(***************************************************************************)
\* The keys of the host's keyboard: an opening and a closing paren, a double
\* quote, a backslash, a letter, a digit, a minus sign, a space, a newline, a
\* form feed (a control character), a semicolon and the word true.
Keys ==
    {<<"(">>, <<")">>, <<"\"">>, <<"\\">>, <<"n">>, <<"1">>, <<"-">>, <<" ">>,
     <<"\n">>, <<"\f">>, <<";">>, <<"t", "r", "u", "e">>}

\* A number literal of 19 digits, 1 << 63, for the host to paste.
LongNumber == MaxInt64Digits

\* tokens, err := Tokenize(input); expr, err := Read(tokens)
ReadText(keys, text) ==
    LET t == Tokenize(text)
        r == IF t.ok THEN Read(t.tokens)
             ELSE ReadFail("not read", Token("EOF", <<>>, 0, 0), NewReader(<<>>))
    IN  [op |-> "Read", keys |-> keys, text |-> text,
         lexed |-> t.ok, tokens |-> t.tokens, lexerr |-> t.err,
         ok |-> r.ok, val |-> r.val, err |-> r.err]

InitRead ==
    /\ heap = NewEnv(NilEnv, <<>>)
    /\ handles = {1}
    /\ last = ReadText(0, <<>>)

DoType(key) ==
    /\ last.keys < MaxKeys
    /\ last' = ReadText(last.keys + 1, last.text \o key)
    /\ UNCHANGED <<heap, handles>>

DoPaste ==
    /\ last.keys = 0
    /\ last' = ReadText(last.keys + 1, last.text \o LongNumber)
    /\ UNCHANGED <<heap, handles>>

NextRead ==
    \/ \E key \in Keys : DoType(key)
    \/ DoPaste

SpecRead == InitRead /\ [][NextRead]_vars

(***************************************************************************)
(* Properties of the environment API (checked under SpecEnv).              *)
(***************************************************************************)
Binds(h, e, name) == name \in DOMAIN h[e].bindings

\* The scopes searched from e: e, its parent, ..., the root.
RECURSIVE Chain(_, _)
Chain(h, e) == IF e = NilEnv THEN <<>> ELSE <<e>> \o Chain(h, h[e].parent)

\* The innermost scope of e's chain that binds name; NilEnv when none does.
Nearest(h, e, name) ==
    LET c == Chain(h, e)
        I == {i \in DOMAIN c : Binds(h, c[i], name)}
    IN  IF I = {} THEN NilEnv ELSE c[CHOOSE i \in I : \A j \in I : i <= j]

Undefined(name) == Errorf("undefined variable", name, <<>>)

\* C3: Define changes only the scope it is called on: the name is bound there
\* to the value, every other binding of that scope and every other scope
\* (ancestors included, also one binding the same name) is as before.
C3_DefineOnlyThisScope ==
    last.op = "Define" =>
        /\ Len(heap) = Len(last.pre)
        /\ \A i \in DOMAIN heap : i # last.env => heap[i] = last.pre[i]
        /\ heap[last.env].parent = last.pre[last.env].parent
        /\ DOMAIN heap[last.env].bindings =
               DOMAIN last.pre[last.env].bindings \cup {last.name}
        /\ \A n \in DOMAIN heap[last.env].bindings :
               heap[last.env].bindings[n] =
                   IF n = last.name THEN last.arg ELSE last.pre[last.env].bindings[n]
        /\ Lookup(last.env, last.name, heap).val = last.arg
        /\ \A i \in 2..Len(Chain(heap, last.env)) :
               LET a == Chain(heap, last.env)[i] IN
               \A n \in EnvNames :
                   Lookup(a, n, heap).val = Lookup(a, n, last.pre).val

\* A child shadowed a binding of its parent: c.Define(x, 17) over x = 42.
C3_Witness ==
    /\ last.op = "Define"
    /\ heap[last.env].parent # NilEnv
    /\ Binds(last.pre, heap[last.env].parent, last.name)
    /\ last.pre[heap[last.env].parent].bindings[last.name] # last.arg
    /\ Lookup(heap[last.env].parent, last.name, heap).val # last.arg

\* C4: Set on a chain that binds the name succeeds and rewrites exactly the
\* binding in the innermost scope that binds it; every other binding of
\* every scope, outer bindings of the same name included, is unchanged.
C4_SetRewritesInnermost ==
    (last.op = "Set" /\ Nearest(last.pre, last.env, last.name) # NilEnv) =>
        LET t == Nearest(last.pre, last.env, last.name) IN
        /\ last.ok
        /\ last.err = NoError
        /\ Len(heap) = Len(last.pre)
        /\ \A i \in DOMAIN heap :
              /\ heap[i].parent = last.pre[i].parent
              /\ DOMAIN heap[i].bindings = DOMAIN last.pre[i].bindings
              /\ \A n \in DOMAIN heap[i].bindings :
                     heap[i].bindings[n] =
                         IF i = t /\ n = last.name THEN last.arg
                         ELSE last.pre[i].bindings[n]

\* Set on a child where child and parent both bound the name, to a value
\* that neither held.
C4_Witness ==
    /\ last.op = "Set"
    /\ last.ok
    /\ last.pre[last.env].parent # NilEnv
    /\ Binds(last.pre, last.env, last.name)
    /\ Binds(last.pre, last.pre[last.env].parent, last.name)
    /\ last.pre[last.env].bindings[last.name] # last.arg
    /\ heap[heap[last.env].parent].bindings[last.name] # last.arg

\* C5: Set never creates a binding: every scope binds the same names before
\* and after; when no scope of the chain binds the name Set fails with
\* undefined variable, the heap is unchanged and a Lookup still fails.
C5_SetNeverCreates ==
    last.op = "Set" =>
        /\ Len(heap) = Len(last.pre)
        /\ \A i \in DOMAIN heap :
               DOMAIN heap[i].bindings = DOMAIN last.pre[i].bindings
        /\ Nearest(last.pre, last.env, last.name) = NilEnv =>
              /\ ~last.ok
              /\ last.err = Undefined(last.name)
              /\ heap = last.pre
              /\ ~Lookup(last.env, last.name, heap).ok
              /\ Lookup(last.env, last.name, heap).err = Undefined(last.name)

\* Set failed on a child scope whose chain binds only other names.
C5_Witness ==
    /\ last.op = "Set"
    /\ ~last.ok
    /\ heap[last.env].parent # NilEnv
    /\ \E n \in EnvNames : Binds(heap, heap[last.env].parent, n)
    /\ \E n \in EnvNames : Binds(heap, last.env, n)

\* C6: Lookup returns the value bound in the innermost scope of the chain
\* that binds the name and fails with undefined variable exactly when no
\* scope of the chain binds it; it changes nothing.
C6_LookupNearest ==
    /\ \A e \in DOMAIN heap : \A n \in EnvNames :
          LET t == Nearest(heap, e, n)
              r == Lookup(e, n, heap)
          IN  /\ r.ok <=> t # NilEnv
              /\ r.ok => r.val = heap[t].bindings[n] /\ r.err = NoError
              /\ ~r.ok => r.val = NoValue /\ r.err = Undefined(n)
    /\ last.op = "Lookup" =>
          /\ heap = last.pre
          /\ last.ok <=> Nearest(heap, last.env, last.name) # NilEnv
          /\ last.ok =>
                last.val = heap[Nearest(heap, last.env, last.name)].bindings[last.name]
          /\ ~last.ok => last.err = Undefined(last.name)
    /\ last.op = "Define" => Lookup(last.env, last.name, heap).val = last.arg

\* A child's Lookup found a name bound only in its parent, while the child
\* binds another name that the parent's Lookup does not find.
C6_Witness ==
    /\ last.op = "Lookup"
    /\ last.ok
    /\ heap[last.env].parent # NilEnv
    /\ ~Binds(heap, last.env, last.name)
    /\ \E n \in EnvNames :
          /\ Binds(heap, last.env, n)
          /\ ~Lookup(heap[last.env].parent, n, heap).ok

(***************************************************************************)
(* Reading the history of the last top-level Eval.                         *)
(***************************************************************************)
Log == last.log

Outcome(r) == <<r.ok, r.val, r.err>>

\* The exit event of the Eval call whose enter event is Log[i].
MatchingExit(i) ==
    CHOOSE j \in (i + 1)..Len(Log) :
        /\ Log[j].ev = "exit" /\ Log[j].depth = Log[i].depth
        /\ \A k \in (i + 1)..(j - 1) : ~(Log[k].ev = "exit" /\ Log[k].depth = Log[i].depth)

\* The Eval calls made directly by the Eval call entered at Log[i].
Kids(i) ==
    {k \in (i + 1)..(MatchingExit(i) - 1) :
        Log[k].ev = "enter" /\ Log[k].depth = Log[i].depth + 1}

\* A set of log positions in increasing order.
RECURSIVE InOrder(_)
InOrder(S) ==
    IF S = {} THEN <<>>
    ELSE LET m == CHOOSE a \in S : \A b \in S : a <= b IN <<m>> \o InOrder(S \ {m})

IsForm(e, name, n) ==
    e.tag = "list" /\ Len(e.elems) = n /\ e.elems[1] = Symbol(name)

IsLiteral(e) == e.tag \in {"number", "string", "bool", "nil"}

\* Closure applications, and those that pass the arity check.
Calls == {i \in DOMAIN Log : Log[i].ev = "call"}
Applied == {i \in Calls : Len(Log[i].args) = Len(Log[i].fn.params)}
\* For i in Applied: Log[i + 1] is the bind event, Log[i + 2] enters the body.
BodyExit(i) == Log[MatchingExit(i + 2)]

ParamNames(fn) == {fn.params[k].name : k \in DOMAIN fn.params}
FreeSymbolBody(fn) == fn.body.tag = "symbol" /\ fn.body.name \notin ParamNames(fn)

\* Evaluations of (lambda ...) forms that returned a closure.
LambdaExits ==
    {j \in DOMAIN Log :
        /\ Log[j].ev = "exit" /\ Log[j].ok /\ Log[j].val.tag = "func"
        /\ IsForm(Log[j].expr, "lambda", 3)}

(***************************************************************************)
(* Properties of closures (checked under Spec).                            *)
(***************************************************************************)
\* C1: lexical scoping: a closure's body is evaluated in a fresh environment
\* whose parent is the environment the closure captured, never the caller's;
\* a free variable of the body resolves to the binding visible from the
\* captured environment at the time of the call.
C1_LexicalScoping ==
    last.op = "Eval" =>
        \A i \in Applied :
            LET c == Log[i]
                frame == Len(c.h) + 1
                b == Log[i + 1]
            IN  /\ b.ev = "bind" /\ b.env = frame /\ Len(b.h) = frame
                /\ b.h[frame].parent = c.fn.env
                /\ Log[i + 2].ev = "enter"
                /\ Log[i + 2].expr = c.fn.body
                /\ Log[i + 2].env = frame
                /\ FreeSymbolBody(c.fn) =>
                       Outcome(BodyExit(i)) =
                           Outcome(Lookup(c.fn.env, c.fn.body.name, c.h))

\* A closure was called from an environment that binds the body's free
\* variable to another value than the captured environment does.
C1_Witness ==
    /\ last.op = "Eval"
    /\ \E i \in Applied :
          LET c == Log[i] IN
          /\ FreeSymbolBody(c.fn)
          /\ c.env # c.fn.env
          /\ Lookup(c.env, c.fn.body.name, c.h).ok
          /\ Lookup(c.fn.env, c.fn.body.name, c.h).ok
          /\ Lookup(c.env, c.fn.body.name, c.h).val
                 # Lookup(c.fn.env, c.fn.body.name, c.h).val
          /\ BodyExit(i).ok
          /\ BodyExit(i).val = Lookup(c.fn.env, c.fn.body.name, c.h).val

\* C2: closures capture by reference: a closure made by evaluating a lambda in
\* environment E and applied later sees, for a free variable of its body, the
\* binding visible from E at the time of the application, whatever it was
\* when the lambda was evaluated; so does the closure that a scope's
\* (define f (lambda () x)) bound, called in a later top-level form.
C2_CaptureByReference ==
    last.op = "Eval" =>
        /\ \A j \in LambdaExits : \A i \in Applied :
              (j < i /\ Log[i].fn = Log[j].val /\ FreeSymbolBody(Log[i].fn)) =>
                  Outcome(BodyExit(i)) =
                      Outcome(Lookup(Log[j].env, Log[i].fn.body.name, Log[i].h))
        /\ (last.expr = CallF /\ Nearest(last.pre, last.env, "f") # NilEnv) =>
              Outcome(last) =
                  Outcome(Lookup(Nearest(last.pre, last.env, "f"), "x", last.pre))

\* Between the evaluation of the lambda and the application of its closure the
\* free variable was redefined, and the body saw the new value.
C2_Witness ==
    /\ last.op = "Eval"
    /\ \E j \in LambdaExits : \E i \in Applied :
          LET name == Log[i].fn.body.name IN
          /\ j < i /\ Log[i].fn = Log[j].val /\ FreeSymbolBody(Log[i].fn)
          /\ Lookup(Log[j].env, name, Log[j].h).ok
          /\ BodyExit(i).ok
          /\ BodyExit(i).val # Lookup(Log[j].env, name, Log[j].h).val
          /\ BodyExit(i).val = Lookup(Log[j].env, name, Log[i].h).val

\* C7: each application binds the parameters in one new environment of its
\* own: binding them leaves every existing environment (the captured one and
\* the caller's among them) as it was, the new environment holds exactly the
\* parameters, no environment that existed before the call is changed when
\* the body returns, and no two applications share an environment.
C7_FreshFramePerCall ==
    last.op = "Eval" =>
        /\ \A i \in Applied :
              LET c == Log[i]
                  frame == Len(c.h) + 1
                  b == Log[i + 1]
              IN  /\ b.env = frame /\ Len(b.h) = frame
                  /\ \A k \in DOMAIN c.h : b.h[k] = c.h[k]
                  /\ DOMAIN b.h[frame].bindings = ParamNames(c.fn)
                  /\ \A k \in DOMAIN c.fn.params :
                         (\A m \in DOMAIN c.fn.params :
                              m > k => c.fn.params[m] # c.fn.params[k]) =>
                             b.h[frame].bindings[c.fn.params[k].name] = c.args[k]
                  /\ \A k \in DOMAIN c.h : BodyExit(i).h[k] = c.h[k]
        /\ \A i \in Applied : \A i2 \in Applied :
              i < i2 => Log[i + 1].env # Log[i2 + 1].env

\* The same closure was applied twice; the body of the first call defined a
\* name in its environment, and the second call found that name undefined.
C7_Witness ==
    /\ last.op = "Eval"
    /\ \E i \in Applied : \E i2 \in Applied :
          /\ i < i2 /\ Log[i].fn = Log[i2].fn
          /\ \E n \in DOMAIN BodyExit(i).h[Log[i + 1].env].bindings :
                /\ n \notin ParamNames(Log[i].fn)
                /\ ~BodyExit(i2).ok
                /\ BodyExit(i2).err = Undefined(n)
                /\ ~Lookup(last.env, n, heap).ok

(***************************************************************************)
(* Properties of conditionals and applications (checked under SpecForms).  *)
(***************************************************************************)
\* Evaluations of well-formed (if test then else) forms, at any depth.
IfEnters == {i \in DOMAIN Log : Log[i].ev = "enter" /\ IsForm(Log[i].expr, "if", 4)}

\* The heap the top-level Eval left behind.
FinalHeap == Log[Len(Log)].h

\* C8: an if evaluates its test and then exactly one branch, the then branch
\* when the test value is truthy and the else branch otherwise, and returns
\* that branch's result; when the test fails no branch is evaluated.  With a
\* literal test and a literal taken branch nothing changes and nothing
\* fails, whatever the other branch is.
C8_IfOneBranch ==
    last.op = "Eval" =>
        /\ \A i \in IfEnters :
              LET e == Log[i].expr.elems
                  q == InOrder(Kids(i))
                  out == Log[MatchingExit(i)]
              IN  /\ Len(q) \in {1, 2}
                  /\ Log[q[1]].expr = e[2] /\ Log[q[1]].env = Log[i].env
                  /\ LET t == Log[MatchingExit(q[1])] IN
                     IF ~t.ok
                     THEN Len(q) = 1 /\ Outcome(out) = Outcome(t) /\ out.h = t.h
                     ELSE /\ Len(q) = 2
                          /\ Log[q[2]].expr = (IF isTruthy(t.val) THEN e[3] ELSE e[4])
                          /\ Log[q[2]].env = Log[i].env
                          /\ Outcome(out) = Outcome(Log[MatchingExit(q[2])])
                          /\ out.h = Log[MatchingExit(q[2])].h
        /\ (/\ IsForm(last.expr, "if", 4)
            /\ IsLiteral(last.expr.elems[2])
            /\ IsLiteral(IF isTruthy(last.expr.elems[2])
                         THEN last.expr.elems[3] ELSE last.expr.elems[4])) =>
              /\ last.ok
              /\ FinalHeap = last.pre
              /\ heap = last.pre

\* An if whose untaken branch is a define of a name that is not bound to the
\* defined value: it returned the taken branch's value and bound nothing.
C8_Witness ==
    /\ last.op = "Eval"
    /\ IsForm(last.expr, "if", 4)
    /\ last.ok
    /\ \E k \in {3, 4} :
          /\ IsForm(last.expr.elems[k], "define", 3)
          /\ last.val = last.expr.elems[7 - k]
          /\ Outcome(Lookup(last.env, last.expr.elems[k].elems[2].name, heap))
                 # Outcome(Ok(last.expr.elems[k].elems[3], heap, <<>>))
    /\ heap = last.pre

\* C9: the else branch is the one evaluated exactly when the test value is
\* Bool(false) or Nil; for every other test value it is the then branch.
C9_Truthiness ==
    last.op = "Eval" =>
        \A i \in IfEnters :
            LET e == Log[i].expr.elems
                q == InOrder(Kids(i))
                t == Log[MatchingExit(q[1])]
            IN  (t.ok /\ Len(q) >= 2 /\ e[3] # e[4]) =>
                    /\ Log[q[2]].expr = e[4] <=> (t.val = Bool(FALSE) \/ t.val = Nil)
                    /\ Log[q[2]].expr = e[3] <=> ~(t.val = Bool(FALSE) \/ t.val = Nil)

\* The test value was the empty List and the then branch was taken.
C9_Witness ==
    /\ last.op = "Eval"
    /\ IsForm(last.expr, "if", 4)
    /\ Log[MatchingExit(2)].ok
    /\ Log[MatchingExit(2)].val = List(<<>>)
    /\ last.ok
    /\ last.val = last.expr.elems[3]
    /\ last.expr.elems[3] # last.expr.elems[4]

\* Evaluations of function applications: non-empty lists whose head is not a
\* special-form name.
AppEnters ==
    {i \in DOMAIN Log :
        /\ Log[i].ev = "enter" /\ Log[i].expr.tag = "list" /\ Len(Log[i].expr.elems) > 0
        /\ ~(/\ Log[i].expr.elems[1].tag = "symbol"
             /\ Log[i].expr.elems[1].name \in {"define", "lambda", "if", "quote"})}

\* The closure application made by the application entered at Log[i], if any.
CallOf(i) ==
    {c \in (i + 1)..(MatchingExit(i) - 1) :
        Log[c].ev = "call" /\ Log[c].depth = Log[i].depth}

\* The evaluations of the elements of the application entered at Log[i].
Operands(i) == {k \in Kids(i) : \A c \in CallOf(i) : k < c}

\* C10: an application evaluates its elements in the caller's environment in
\* the order written, the callable first, each once; the first failure ends
\* the application with that error, no later element is evaluated and
\* nothing is called; a symbol operand sees the environment as the element
\* before it left it; an unbound head symbol gives undefined variable for
\* that symbol and leaves the environment unchanged.
C10_ApplyOrder ==
    last.op = "Eval" =>
        /\ \A i \in AppEnters :
              LET e == Log[i].expr.elems
                  q == InOrder(Operands(i))
                  out == Log[MatchingExit(i)]
              IN  /\ Len(q) >= 1 /\ Len(q) <= Len(e)
                  /\ \A k \in DOMAIN q :
                        Log[q[k]].expr = e[k] /\ Log[q[k]].env = Log[i].env
                  /\ \A k \in 1..(Len(q) - 1) : Log[MatchingExit(q[k])].ok
                  /\ LET t == Log[MatchingExit(q[Len(q)])] IN
                     IF ~t.ok
                     THEN Outcome(out) = Outcome(t) /\ out.h = t.h /\ CallOf(i) = {}
                     ELSE Len(q) = Len(e)
                  /\ \A k \in 2..Len(q) :
                        e[k].tag = "symbol" =>
                            Outcome(Log[MatchingExit(q[k])]) =
                                Outcome(Lookup(Log[i].env, e[k].name,
                                               Log[MatchingExit(q[k - 1])].h))
        /\ (/\ 1 \in AppEnters
            /\ last.expr.elems[1].tag = "symbol"
            /\ ~Lookup(last.env, last.expr.elems[1].name, last.pre).ok) =>
              /\ ~last.ok
              /\ last.err = Undefined(last.expr.elems[1].name)
              /\ Cardinality(Kids(1)) = 1
              /\ FinalHeap = last.pre

\* An application failed at an argument in the middle: the elements before
\* it were evaluated, the ones after it were not.
C10_Witness ==
    /\ last.op = "Eval"
    /\ 1 \in AppEnters
    /\ ~last.ok
    /\ Cardinality(Operands(1)) >= 3
    /\ Cardinality(Operands(1)) < Len(last.expr.elems)
    /\ IsForm(last.expr.elems[Len(last.expr.elems)], "define", 3)
    /\ FinalHeap = last.pre

(***************************************************************************)
(* Properties of arity and form checks, error propagation and lambda       *)
(* (checked under SpecForms).                                              *)
(***************************************************************************)
\* The heap when the event Log[i] was logged: the heap the event before it
\* left behind.
RECURSIVE HeapAt(_)
HeapAt(i) ==
    IF i = 1 THEN last.pre
    ELSE IF Log[i - 1].ev = "enter" THEN HeapAt(i - 1)
    ELSE Log[i - 1].h

ArityError(params, args) == Errorf("function expects arguments", "", <<params, args>>)

\* C11: every application of a closure compares the number of arguments with
\* the number of parameters.  When they differ the application fails with
\* the arity error (expected, got), no environment is allocated or changed
\* and the body is not evaluated; when they agree a new environment binds
\* the i-th parameter to the i-th argument and the body runs in it.
C11_ArityChecked ==
    last.op = "Eval" =>
        \A i \in Calls :
            LET c == Log[i]
                np == Len(c.fn.params)
                nxt == Log[i + 1]
            IN  IF Len(c.args) # np
                THEN /\ nxt.ev = "exit" /\ nxt.depth = c.depth
                     /\ ~nxt.ok /\ nxt.val = NoValue
                     /\ nxt.err = ArityError(np, Len(c.args))
                     /\ nxt.h = c.h
                ELSE /\ nxt.ev = "bind"
                     /\ Len(nxt.h) = Len(c.h) + 1
                     /\ \A k \in 1..np :
                            (\A m \in (k + 1)..np : c.fn.params[m] # c.fn.params[k]) =>
                                nxt.h[nxt.env].bindings[c.fn.params[k].name] = c.args[k]
                     /\ Log[i + 2].ev = "enter" /\ Log[i + 2].expr = c.fn.body
                     /\ Log[i + 2].env = nxt.env

\* (lambda (x) x) was applied to two arguments: the arity error came back
\* and the heap is as it was.
C11_Witness ==
    /\ last.op = "Eval"
    /\ ~last.ok
    /\ last.err = ArityError(1, 2)
    /\ \E i \in Calls : Log[i].fn.params = <<Symbol("x")>> /\ Len(Log[i].args) = 2
    /\ heap = last.pre

\* Evaluations of special forms: non-empty lists headed by a reserved name.
SpecialEnters ==
    {i \in DOMAIN Log :
        /\ Log[i].ev = "enter" /\ Log[i].expr.tag = "list" /\ Len(Log[i].expr.elems) > 0
        /\ Log[i].expr.elems[1].tag = "symbol"
        /\ Log[i].expr.elems[1].name \in {"define", "lambda", "if", "quote"}}

\* The required number of operands of each special form.
RequiredOperands(name) ==
    CASE name = "define" -> 2 [] name = "lambda" -> 2 [] name = "if" -> 3 [] name = "quote" -> 1

\* The form has the right number of operands but a first operand of the
\* wrong shape.
BadShape(e) ==
    \/ e[1].name = "define" /\ e[2].tag # "symbol"
    \/ e[1].name = "lambda" /\ e[2].tag # "list"
    \/ /\ e[1].name = "lambda" /\ e[2].tag = "list"
       /\ \E k \in DOMAIN e[2].elems : e[2].elems[k].tag # "symbol"

\* C12: a special form with another number of operands than define 2,
\* lambda 2, if 3, quote 1, or with a define whose first operand is not a
\* Symbol or a lambda whose first operand is not a List of Symbols, fails
\* at once: none of its operands is evaluated, the heap is as it was when
\* the form was entered, and the error names the form (and the count
\* received, for a wrong count).
C12_FormShapes ==
    last.op = "Eval" =>
        \A i \in SpecialEnters :
            LET e == Log[i].expr.elems
                name == e[1].name
                out == Log[i + 1]
                rejected == /\ out.ev = "exit" /\ out.depth = Log[i].depth
                            /\ ~out.ok /\ out.val = NoValue
                            /\ out.h = HeapAt(i)
            IN  /\ Len(e) - 1 # RequiredOperands(name) =>
                      /\ rejected
                      /\ out.err.nums = <<Len(e) - 1>>
                      /\ out.err.kind =
                             (CASE name = "define" -> "define requires 2 arguments"
                                [] name = "lambda" -> "lambda requires 2 arguments"
                                [] name = "if" -> "if requires 3 arguments"
                                [] name = "quote" -> "quote requires 1 argument")
                /\ (Len(e) - 1 = RequiredOperands(name) /\ BadShape(e)) =>
                      /\ rejected
                      /\ out.err.kind \in {"define: first argument must be a symbol",
                                           "lambda: parameters must be a list",
                                           "lambda: parameter must be a symbol"}

\* (define 1 (define x 2)) was rejected and x is not bound to 2.
C12_Witness ==
    /\ last.op = "Eval"
    /\ IsForm(last.expr, "define", 3)
    /\ last.expr.elems[2].tag = "number"
    /\ IsForm(last.expr.elems[3], "define", 3)
    /\ ~last.ok
    /\ heap = last.pre
    /\ Outcome(Lookup(last.env, "x", heap)) # Outcome(Ok(Number(2), heap, <<>>))

\* All evaluations, at any depth.
Enters == {i \in DOMAIN Log : Log[i].ev = "enter"}

\* C13: an Eval whose sub-evaluation (the value of a define, the test or the
\* taken branch of an if, the callee or an argument of an application, the
\* body of a closure) fails returns that error, unchanged and without a
\* value; an application of a primitive returns exactly what the primitive
\* returned; the host receives what the outermost Eval returned.
C13_ErrorsPropagate ==
    last.op = "Eval" =>
        /\ \A i \in Enters :
              LET out == Log[MatchingExit(i)] IN
              /\ ~out.ok => out.val = NoValue /\ out.err # NoError
              /\ \A k \in Kids(i) :
                    ~Log[MatchingExit(k)].ok =>
                        /\ ~out.ok
                        /\ out.val = NoValue
                        /\ out.err = Log[MatchingExit(k)].err
                        /\ MatchingExit(i) = MatchingExit(k) + 1
        /\ \A i \in AppEnters :
              LET q == InOrder(Operands(i))
                  vals == [k \in DOMAIN q |-> Log[MatchingExit(q[k])].val]
                  out == Log[MatchingExit(i)]
              IN  (/\ Len(q) = Len(Log[i].expr.elems)
                   /\ \A k \in DOMAIN q : Log[MatchingExit(q[k])].ok
                   /\ vals[1].tag = "primitive") =>
                      Outcome(out) =
                          Outcome(callPrimitive(vals[1], Tail(vals), Log[i].env, <<>>))
        /\ Outcome(last) = Outcome(Log[Len(Log)])

\* An error raised by a primitive three or more levels down came back from
\* the top-level Eval.
C13_Witness ==
    /\ last.op = "Eval"
    /\ ~last.ok
    /\ last.err.kind \in {"car: expected list", "/: division by zero"}
    /\ \E i \in AppEnters :
          /\ Log[i].depth >= 2
          /\ Log[MatchingExit(i)].err = last.err
          /\ \A k \in Kids(i) : Log[MatchingExit(k)].ok

\* Evaluations of (lambda (p1 ...) body) forms with a List of Symbols.
LambdaEnters ==
    {i \in SpecialEnters :
        /\ IsForm(Log[i].expr, "lambda", 3)
        /\ ~BadShape(Log[i].expr.elems)}

\* C19: evaluating (lambda (p1 ...) body) evaluates nothing and changes no
\* binding: it returns at once, with the heap as it found it, a closure of
\* the parameter symbols in order, the body as written and the environment
\* the lambda was evaluated in, whatever the body is.
C19_LambdaMakesClosure ==
    last.op = "Eval" =>
        \A i \in LambdaEnters :
            LET e == Log[i].expr.elems
                out == Log[i + 1]
            IN  /\ out.ev = "exit" /\ out.depth = Log[i].depth
                /\ out.ok /\ out.err = NoError
                /\ out.val.tag = "func"
                /\ out.val.params = e[2].elems
                /\ out.val.body = e[3]
                /\ out.val.env = Log[i].env
                /\ out.h = HeapAt(i)

\* A lambda whose body would fail (an unbound callee, or car of a number) or
\* would define x returned a closure and the heap is unchanged.
C19_Witness ==
    /\ last.op = "Eval"
    /\ IsForm(last.expr, "lambda", 3)
    /\ last.ok
    /\ last.val.tag = "func"
    /\ ~Eval(last.val.body, last.env, heap, 0).ok
    /\ heap = last.pre

(***************************************************************************)
(* Properties of the primitives (checked under SpecPrim).                  *)
(***************************************************************************)
AllNumbers(args) == \A k \in DOMAIN args : args[k].tag = "number"

\* C14: on Number arguments "/" fails with division by zero exactly when a
\* divisor is zero: the only argument when there is one, any argument
\* after the first when there are more; a zero first argument over
\* non-zero divisors is no error and gives 0.
C14_DivisionByZero ==
    (last.op = "Primitive" /\ last.name = "/" /\ AllNumbers(last.arg)
        /\ Len(last.arg) >= 1) =>
        LET a == last.arg
            zeroDivisor == IF Len(a) = 1 THEN a[1].n = 0
                           ELSE \E k \in 2..Len(a) : a[k].n = 0
        IN  /\ zeroDivisor =>
                  /\ ~last.ok /\ last.val = NoValue
                  /\ last.err = Errorf("/: division by zero", "", <<>>)
            /\ ~zeroDivisor => last.ok /\ last.err = NoError
            /\ (~zeroDivisor /\ a[1].n = 0 /\ Len(a) >= 2) => last.val = Number(0)
            /\ heap = last.pre

\* (/ 24 3 0): a zero divisor after a non-zero one.
C14_Witness ==
    /\ last.op = "Primitive" /\ last.name = "/"
    /\ Len(last.arg) = 3 /\ AllNumbers(last.arg)
    /\ last.arg[1].n # 0 /\ last.arg[2].n # 0 /\ last.arg[3].n = 0
    /\ ~last.ok
    /\ last.err.kind = "/: division by zero"

\* The mathematical sum and product of a sequence of Numbers.
RECURSIVE Sum(_)
Sum(a) == IF a = <<>> THEN 0 ELSE Head(a).n + Sum(Tail(a))

RECURSIVE Product(_)
Product(a) == IF a = <<>> THEN 1 ELSE Head(a).n * Product(Tail(a))

Abs(x) == IF x < 0 THEN -x ELSE x

\* The integer q nearest to a / b between 0 and a / b (b # 0).
TruncDiv(a, b) ==
    CHOOSE q \in (-Abs(a))..Abs(a) :
        /\ Abs(q) * Abs(b) <= Abs(a)
        /\ Abs(a) < (Abs(q) + 1) * Abs(b)
        /\ q > 0 => (a > 0) = (b > 0)
        /\ q < 0 => (a > 0) # (b > 0)

\* acc divided by each Number of a in turn, truncating every quotient.
RECURSIVE DivideBy(_, _)
DivideBy(acc, a) ==
    IF a = <<>> THEN acc ELSE DivideBy(TruncDiv(acc, Head(a).n), Tail(a))

\* C15: on Number arguments, + gives the sum (0 for none), * the product
\* (1 for none); - and / fail without arguments; (- n) is the negation of
\* n and (- a b c ...) is a minus the others; (/ a b c ...) divides a by
\* the others in turn, each quotient truncated toward zero, and (/ n) for
\* n # 0 is the truncated quotient of 1 by n.
C15_Arithmetic ==
    (last.op = "Primitive" /\ last.name \in ArithNames /\ AllNumbers(last.arg)) =>
        LET a == last.arg
            value(n) == last.ok /\ last.val = Number(n) /\ last.err = NoError
        IN  /\ last.name = "+" => value(Sum(a))
            /\ last.name = "*" => value(Product(a))
            /\ (last.name = "-" /\ Len(a) = 0) =>
                  ~last.ok /\ last.err = Errorf("-: requires at least 1 argument", "", <<>>)
            /\ (last.name = "/" /\ Len(a) = 0) =>
                  ~last.ok /\ last.err = Errorf("/: requires at least 1 argument", "", <<>>)
            /\ (last.name = "-" /\ Len(a) = 1) => value(0 - a[1].n)
            /\ (last.name = "-" /\ Len(a) >= 2) => value(a[1].n - Sum(Tail(a)))
            /\ (last.name = "/" /\ Len(a) = 1 /\ a[1].n # 0) => value(TruncDiv(1, a[1].n))
            /\ (last.name = "/" /\ Len(a) >= 2 /\ \A k \in 2..Len(a) : a[k].n # 0) =>
                  value(DivideBy(a[1].n, Tail(a)))
            /\ (last.name = "+" /\ a = <<Number(1), Number(2), Number(3), Number(4)>>) =>
                  last.val = Number(10)
            /\ (last.name = "-" /\ a = <<Number(10), Number(3), Number(2)>>) =>
                  last.val = Number(5)
            /\ (last.name = "/" /\ a = <<Number(24), Number(3), Number(2)>>) =>
                  last.val = Number(4)

\* (/ -7 2 ...) was computed: a negative quotient that is not exact, -3
\* after the first division.
C15_Witness ==
    /\ last.op = "Primitive" /\ last.name = "/"
    /\ last.arg = <<Number(-7), Number(2)>>
    /\ last.ok
    /\ last.val = Number(-3)

\* The native function of a list primitive applied to a slice.
Fn(name, args) == callPrimitive(Primitive(name), args, NilEnv, <<>>)

\* C16: cons(a, l) on a List l is a List of one more element that starts
\* with a and continues with the elements of l, built beside l, which is
\* a value and stays what it was; car of it is a, cdr of it is l element
\* by element; cdr of a one-element List is the empty List; car
\* and cdr fail on the empty List and on a value that is no List, cons
\* fails when its second argument is no List, and each fails on any other
\* number of arguments.
C16_ListPrimitives ==
    (last.op = "Primitive" /\ last.name \in {"car", "cdr", "cons"}) =>
        LET a == last.arg
            failed(kind, nums) ==
                ~last.ok /\ last.val = NoValue /\ last.err = Errorf(kind, "", nums)
        IN  /\ heap = last.pre
            /\ (last.name = "cons" /\ Len(a) # 2) =>
                  failed("cons: requires 2 arguments", <<Len(a)>>)
            /\ (last.name = "cons" /\ Len(a) = 2 /\ a[2].tag # "list") =>
                  failed("cons: second argument must be a list", <<>>)
            /\ (last.name = "cons" /\ Len(a) = 2 /\ a[2].tag = "list") =>
                  /\ last.ok /\ last.val.tag = "list"
                  /\ Len(last.val.elems) = Len(a[2].elems) + 1
                  /\ last.val.elems[1] = a[1]
                  /\ \A k \in DOMAIN a[2].elems : last.val.elems[k + 1] = a[2].elems[k]
                  /\ Outcome(Fn("car", <<last.val>>)) = Outcome(Value(a[1]))
                  /\ Fn("cdr", <<last.val>>).ok
                  /\ Fn("cdr", <<last.val>>).val.tag = "list"
                  /\ Fn("cdr", <<last.val>>).val.elems = a[2].elems
            /\ (last.name \in {"car", "cdr"} /\ Len(a) # 1) =>
                  failed(IF last.name = "car" THEN "car: requires 1 argument"
                         ELSE "cdr: requires 1 argument", <<Len(a)>>)
            /\ (last.name \in {"car", "cdr"} /\ Len(a) = 1 /\ a[1].tag # "list") =>
                  failed(IF last.name = "car" THEN "car: expected list"
                         ELSE "cdr: expected list", <<>>)
            /\ (last.name \in {"car", "cdr"} /\ Len(a) = 1 /\ a[1] = List(<<>>)) =>
                  failed(IF last.name = "car" THEN "car: cannot take car of empty list"
                         ELSE "cdr: cannot take cdr of empty list", <<>>)
            /\ (last.name = "car" /\ Len(a) = 1 /\ a[1].tag = "list" /\ a[1].elems # <<>>) =>
                  last.ok /\ last.val = a[1].elems[1]
            /\ (last.name = "cdr" /\ Len(a) = 1 /\ a[1].tag = "list" /\ a[1].elems # <<>>) =>
                  /\ last.ok /\ last.val.tag = "list"
                  /\ Len(last.val.elems) = Len(a[1].elems) - 1
                  /\ \A k \in DOMAIN last.val.elems : last.val.elems[k] = a[1].elems[k + 1]
                  /\ Len(a[1].elems) = 1 => last.val = List(<<>>)

\* cons of a number onto a two-element List: the result has three elements,
\* the number first.
C16_Witness ==
    /\ last.op = "Primitive" /\ last.name = "cons"
    /\ last.ok
    /\ last.arg[1].tag = "number"
    /\ Len(last.arg[2].elems) = 2
    /\ Len(last.val.elems) = 3
    /\ last.val.elems[1] # last.val.elems[2]

(***************************************************************************)
(* Properties of the lexer, the reader and the printer (checked under      *)
(* SpecRead).                                                              *)
(***************************************************************************)
\* The text was tokenized and read into a value.
WasRead == last.op = "Read" /\ last.lexed /\ last.ok

\* Tokenize, then Read, on a text.
ReadAgain(text) ==
    LET t == Tokenize(text) IN
    IF t.ok THEN Read(t.tokens)
    ELSE ReadFail("illegal token", t.at, NewReader(<<>>))

\* C17: round trip: the value read from a well-formed text, printed with
\* String() and read again, is a value equal to the first one.
C17_RoundTrip ==
    WasRead =>
        /\ ReadAgain(StringOf(last.val)).ok
        /\ ReadAgain(StringOf(last.val)).val = last.val

\* The tokens before the end marker.
Body == SubSeq(last.tokens, 1, Len(last.tokens) - 1)

\* Open parens minus closing parens among the first k tokens.
RECURSIVE Depth(_)
Depth(k) ==
    IF k = 0 THEN 0
    ELSE Depth(k - 1) + (CASE Body[k].type = "LPAREN" -> 1
                           [] Body[k].type = "RPAREN" -> -1
                           [] OTHER -> 0)

IsAtom(tok) == tok.type \in {"NUMBER", "SYMBOL", "STRING", "BOOL"}

\* The tokens are one complete expression: one atom, or a list whose
\* opening paren is closed by the last token and not before.
OneExpression ==
    \/ Len(Body) = 1 /\ IsAtom(Body[1])
    \/ /\ Len(Body) >= 2 /\ Body[1].type = "LPAREN"
       /\ Depth(Len(Body)) = 0
       /\ \A k \in 1..(Len(Body) - 1) : Depth(k) > 0

\* Every number token is the text of an int64.
NumbersInRange == \A k \in DOMAIN Body : Body[k].type = "NUMBER" => ParseInt(Body[k].value).ok

\* A value written out in source order: its parens and its atoms.
RECURSIVE Flat(_)
RECURSIVE FlatAll(_)
FlatAll(elems) == IF elems = <<>> THEN <<>> ELSE Flat(Head(elems)) \o FlatAll(Tail(elems))
Flat(v) ==
    IF v.tag = "list" THEN <<[tag |-> "lparen"]>> \o FlatAll(v.elems) \o <<[tag |-> "rparen"]>>
    ELSE <<v>>

\* What a token stands for.
Meaning(tok) ==
    CASE tok.type = "LPAREN" -> [tag |-> "lparen"]
      [] tok.type = "RPAREN" -> [tag |-> "rparen"]
      [] tok.type = "NUMBER" -> Number(ParseInt(tok.value).n)
      [] tok.type = "SYMBOL" -> Symbol(tok.value)
      [] tok.type = "STRING" -> String(tok.value)
      [] tok.type = "BOOL" -> Bool(tok.value = <<"t", "r", "u", "e">>)

\* The ways Read fails on well-formed tokens.
ReadFailures ==
    /\ Len(Body) = 0 => ~last.ok /\ last.err.kind = "unexpected end of input"
    /\ (Len(Body) > 0 /\ Body[1].type = "RPAREN") =>
          ~last.ok /\ last.err.kind = "unexpected closing paren"
    /\ (/\ Len(Body) > 0 /\ Body[1].type = "LPAREN"
        /\ \A k \in 1..Len(Body) : Depth(k) > 0) =>
          ~last.ok /\ last.err.kind \in {"unclosed list", "invalid number"}
    /\ (/\ Len(Body) >= 2
        /\ \/ IsAtom(Body[1])
           \/ \E k \in 1..(Len(Body) - 1) : Depth(k) = 0 /\ \A j \in 1..(k - 1) : Depth(j) > 0) =>
          ~last.ok /\ last.err.kind \in {"unexpected token after expression", "invalid number"}
    /\ ~last.ok => last.val = NoValue

\* The value Read returned is the tokens' expression, elements in source order.
ReadValue == last.ok => Flat(last.val) = [k \in DOMAIN Body |-> Meaning(Body[k])]

\* C18 as claimed: Read on the tokens of Tokenize succeeds exactly when the
\* tokens before the end marker are one complete expression, returns that
\* value with the elements in source order, and fails on trailing tokens,
\* an unclosed list, an unmatched closing paren and an empty input.
C18_ReaderContract_Claimed ==
    (last.op = "Read" /\ last.lexed) =>
        /\ last.ok <=> OneExpression
        /\ ReadValue
        /\ ReadFailures

\* C18, amended: Read on the tokens of Tokenize succeeds exactly when the
\* tokens before the end marker are one complete expression and each of its
\* number tokens is the text of an int64; it then returns that value with
\* the elements in source order.  It fails on trailing tokens, an unclosed
\* list, an unmatched closing paren, an empty input and a number out of
\* the int64 range.
C18_ReaderContract ==
    (last.op = "Read" /\ last.lexed) =>
        /\ last.ok <=> (OneExpression /\ NumbersInRange)
        /\ ReadValue
        /\ ReadFailures
        /\ (~NumbersInRange /\ OneExpression) =>
              ~last.ok /\ last.err.kind = "invalid number"

\* A list of two different atoms was read, its elements in source order.
C18_Witness ==
    /\ last.op = "Read" /\ last.lexed /\ last.ok
    /\ last.val.tag = "list"
    /\ Len(last.val.elems) = 2
    /\ last.val.elems[1].tag = "number"
    /\ last.val.elems[2].tag = "symbol"
    /\ Len(Body) = 4

(***************************************************************************)
(* Properties of environment chains (checked under Spec).                  *)
(***************************************************************************)
\* Every environment of h was allocated after its parent.
ParentsOlder(h) == \A e \in DOMAIN h : h[e].parent \in 0..(e - 1)

\* The environments of h1 are in h2 with the parents they have in h1.
SameParents(h1, h2) ==
    \A e \in DOMAIN h1 : e \in DOMAIN h2 /\ h2[e].parent = h1[e].parent

\* C20: environment chains are acyclic and fixed.  Whatever the host ran,
\* every environment points to a parent allocated before it (or to none),
\* so the chain from any environment visits no environment twice and ends
\* at a root, and Lookup and Set on it return; an environment created by
\* Extend has the receiver as parent and one created by NewEnv(nil) has
\* none; no step changes the parent of an environment that exists before
\* and after it, neither a host operation nor any step inside an Eval.
C20_ChainsAcyclicFixed ==
    /\ ParentsOlder(heap)
    /\ \A e \in DOMAIN heap :
          LET c == Chain(heap, e) IN
          /\ Len(c) <= Len(heap)
          /\ \A i \in DOMAIN c : \A j \in DOMAIN c : i # j => c[i] # c[j]
          /\ heap[c[Len(c)]].parent = NilEnv
          /\ Lookup(e, "x", heap).ok \in BOOLEAN
          /\ Set(e, "x", Number(0), heap).ok \in BOOLEAN
    /\ \A e \in DOMAIN heap : e \in DOMAIN last.pre => heap[e].parent = last.pre[e].parent
    /\ last.op = "Extend" =>
          Len(heap) = Len(last.pre) + 1 /\ heap[Len(heap)].parent = last.env
    /\ last.op = "NewEnv" =>
          Len(heap) = Len(last.pre) + 1 /\ heap[Len(heap)].parent = NilEnv
    /\ last.op = "Eval" =>
          \A j \in DOMAIN Log :
              Log[j].ev # "enter" =>
                  /\ ParentsOlder(Log[j].h)
                  /\ SameParents(HeapAt(j), Log[j].h)
                  /\ Log[j].ev = "bind" =>
                        Log[j].h[Log[j].env].parent = Log[j].fn.env

\* A closure made in an extended scope was applied: its call environment
\* heads a chain of three environments.
C20_Witness ==
    /\ last.op = "Eval"
    /\ \E j \in DOMAIN Log :
          /\ Log[j].ev = "bind"
          /\ Len(Chain(Log[j].h, Log[j].env)) >= 3

(***************************************************************************)
(* Properties of the reserved names and of define (checked under           *)
(* SpecForms).                                                             *)
(***************************************************************************)
ReservedNames == {"define", "lambda", "if", "quote"}

\* The expression reads the name as a variable: the name stands somewhere in
\* it other than at the head of a list.
RECURSIVE Mentions(_, _)
Mentions(expr, name) ==
    CASE expr.tag = "symbol" -> expr.name = name
      [] expr.tag = "list" ->
           \E k \in DOMAIN expr.elems :
               /\ ~(k = 1 /\ expr.elems[1] = Symbol(name))
               /\ Mentions(expr.elems[k], name)
      [] OTHER -> FALSE

\* The heap with the name bound in no scope.
Unbind(h, name) ==
    [e \in DOMAIN h |->
        EnvStruct([n \in (DOMAIN h[e].bindings) \ {name} |-> h[e].bindings[n]],
                  h[e].parent)]

\* Evaluations of special forms whose head name is bound, to a closure or a
\* primitive, in the chain of the evaluating environment.
ShadowedEnters ==
    {i \in SpecialEnters :
        LET b == Lookup(Log[i].env, Log[i].expr.elems[1].name, HeapAt(i)) IN
        b.ok /\ b.val.tag \in {"func", "primitive"}}

\* C21: a list headed by define, lambda, if or quote is evaluated by the
\* rule of that form whatever the environment binds the name to: the head
\* is never evaluated and nothing is applied; quote and lambda evaluate
\* nothing, define evaluates at most its value expression and if its test
\* and one branch; and a form that does not read the name as a variable
\* has the outcome it has where the name is unbound.
C21_ReservedNames ==
    last.op = "Eval" =>
        \A i \in SpecialEnters :
            LET e == Log[i].expr.elems
                name == e[1].name
                q == InOrder(Kids(i))
                out == Log[MatchingExit(i)]
            IN  /\ CallOf(i) = {}
                /\ \A k \in DOMAIN q : Log[q[k]].env = Log[i].env
                /\ name \in {"quote", "lambda"} => q = <<>>
                /\ (name = "quote" /\ Len(e) = 2) =>
                      out.ok /\ out.val = e[2] /\ out.h = HeapAt(i)
                /\ (name = "lambda" /\ out.ok) => out.val.tag = "func"
                /\ name = "define" =>
                      /\ Len(q) <= 1
                      /\ Len(q) = 1 => Log[q[1]].expr = e[3]
                      /\ out.ok =>
                            /\ Len(q) = 1
                            /\ out.val = Log[MatchingExit(q[1])].val
                            /\ out.h[Log[i].env].bindings[e[2].name] = out.val
                /\ name = "if" =>
                      /\ Len(q) <= 2
                      /\ Len(q) >= 1 => Log[q[1]].expr = e[2]
                      /\ Len(q) = 2 =>
                            /\ Log[q[2]].expr \in {e[3], e[4]}
                            /\ Outcome(out) = Outcome(Log[MatchingExit(q[2])])
                /\ ~Mentions(Log[i].expr, name) =>
                      Outcome(out) =
                          Outcome(Eval(Log[i].expr, Log[i].env,
                                       Unbind(HeapAt(i), name), Log[i].depth))

\* In the body of a closure a special form was evaluated by its rule and
\* succeeded while an enclosing scope bound the form's name to a closure or
\* a primitive; applying that binding to the operands would have failed.
C21_Witness ==
    /\ last.op = "Eval"
    /\ \E i \in ShadowedEnters :
          LET e == Log[i].expr.elems
              b == Lookup(Log[i].env, e[1].name, HeapAt(i))
          IN  /\ HeapAt(i)[Log[i].env].parent # NilEnv
              /\ ~Binds(HeapAt(i), Log[i].env, e[1].name)
              /\ Log[MatchingExit(i)].ok
              /\ ~Mentions(Log[i].expr, e[1].name)
              /\ ~evalApply(Log[i].expr, Log[i].env, HeapAt(i), Log[i].depth).ok

\* Evaluations of define forms, of any shape.
DefineEnters == {i \in SpecialEnters : Log[i].expr.elems[1].name = "define"}

\* What scope e of heap h binds the name to, if it binds it.
BindingOf(h, e, name) ==
    IF Binds(h, e, name) THEN <<TRUE, h[e].bindings[name]>> ELSE <<FALSE, NoValue>>

\* The names bound somewhere in h.
BoundNames(h) == UNION {DOMAIN h[e].bindings : e \in DOMAIN h}

\* Every scope of h1 is in h2 and binds the name as it does in h1.
NameKept(h1, h2, name) ==
    \A s \in DOMAIN h1 :
        s \in DOMAIN h2 /\ BindingOf(h2, s, name) = BindingOf(h1, s, name)

\* Heap h2 is heap h1 with the name bound to the value in scope env and
\* nothing else changed in the scopes of h1.
OnlyBound(h1, h2, env, name, value) ==
    /\ BindingOf(h2, env, name) = <<TRUE, value>>
    /\ \A s \in DOMAIN h1 :
          /\ s \in DOMAIN h2 /\ h2[s].parent = h1[s].parent
          /\ \A n \in BoundNames(h1) \cup BoundNames(h2) :
                ~(s = env /\ n = name) => BindingOf(h2, s, n) = BindingOf(h1, s, n)

\* The define form has two operands, the first a Symbol.
WellFormedDefine(e) == Len(e) = 3 /\ e[2].tag = "symbol"

\* C22 as claimed: a define that fails, in its value expression or as
\* malformed, returns the error and leaves the name bound in every scope as
\* it was when the form was entered; a define that succeeds returns the
\* value and changes exactly the binding of the name in the current scope.
C22_FailingDefine_Claimed ==
    last.op = "Eval" =>
        \A i \in DefineEnters :
            LET e == Log[i].expr.elems
                out == Log[MatchingExit(i)]
            IN  /\ ~out.ok =>
                      /\ out.val = NoValue /\ out.err # NoError
                      /\ (Len(e) >= 2 /\ e[2].tag = "symbol") =>
                            NameKept(HeapAt(i), out.h, e[2].name)
                /\ out.ok =>
                      /\ out.val = Log[MatchingExit(i + 1)].val
                      /\ OnlyBound(HeapAt(i), out.h, Log[i].env, e[2].name, out.val)

\* The defines of the name that succeeded inside the evaluation entered at
\* Log[i].
InnerDefines(i, name) ==
    {j \in (i + 1)..(MatchingExit(i) - 1) :
        /\ Log[j].ev = "exit" /\ Log[j].ok
        /\ Log[j].expr.tag = "list" /\ WellFormedDefine(Log[j].expr.elems)
        /\ Log[j].expr.elems[1] = Symbol("define")
        /\ Log[j].expr.elems[2].name = name}

\* C22, amended: a failing define binds nothing itself.  A malformed define
\* fails at once on the heap it was entered with.  When the value expression
\* fails, the define returns that error and every scope is as the value
\* expression left it, so the name is bound in every scope as it was when
\* the form was entered unless a define of that name completed inside the
\* value expression before the failure.  When the value expression
\* succeeds, the define returns its value and, in the heap the value
\* expression left, changes exactly the binding of the name in the current
\* scope.
C22_FailingDefine ==
    last.op = "Eval" =>
        \A i \in DefineEnters :
            LET e == Log[i].expr.elems
                out == Log[MatchingExit(i)]
                v == Log[MatchingExit(i + 1)]
            IN  IF ~WellFormedDefine(e)
                THEN /\ MatchingExit(i) = i + 1
                     /\ ~out.ok /\ out.val = NoValue /\ out.err # NoError
                     /\ out.h = HeapAt(i)
                ELSE /\ Log[i + 1].ev = "enter" /\ Log[i + 1].expr = e[3]
                     /\ Log[i + 1].env = Log[i].env
                     /\ MatchingExit(i) = MatchingExit(i + 1) + 1
                     /\ ~v.ok =>
                           /\ Outcome(out) = Outcome(v)
                           /\ ~out.ok /\ out.val = NoValue
                           /\ out.h = v.h
                           /\ InnerDefines(i, e[2].name) = {} =>
                                 NameKept(HeapAt(i), out.h, e[2].name)
                     /\ v.ok =>
                           /\ out.ok /\ out.val = v.val /\ out.err = NoError
                           /\ Len(out.h) = Len(v.h)
                           /\ OnlyBound(v.h, out.h, Log[i].env, e[2].name, v.val)

\* A define whose value expression was evaluated and failed, of a name that
\* the environment already bound: the error came back and the name has the
\* value it had.
C22_Witness ==
    /\ last.op = "Eval"
    /\ IsForm(last.expr, "define", 3)
    /\ last.expr.elems[2].tag = "symbol"
    /\ ~last.ok
    /\ Len(Log) > 3
    /\ Lookup(last.env, last.expr.elems[2].name, last.pre).ok
    /\ Outcome(Lookup(last.env, last.expr.elems[2].name, heap))
           = Outcome(Lookup(last.env, last.expr.elems[2].name, last.pre))
    /\ heap = last.pre

(***************************************************************************)
(* Properties of token positions (checked under SpecRead).                 *)
(***************************************************************************)
\* The 1-based line of the character at offset p of the text: one more than
\* the newlines before it.
LineOf(text, p) == 1 + Cardinality({k \in 1..p : text[k] = "\n"})

\* The 1-based column of the character at offset p of the text: its distance
\* from the start of its line.
ColOf(text, p) ==
    LET breaks == {k \in 1..p : text[k] = "\n"}
        lineStart == IF breaks = {} THEN 0 ELSE CHOOSE k \in breaks : \A j \in breaks : j <= k
    IN  p - lineStart + 1

\* The offsets at which the tokens of the text start, one after the other:
\* where the lexer stands when whitespace and comments are skipped.
RECURSIVE StartsFrom(_)
StartsFrom(l) ==
    LET at == skipWhitespaceAndComments(l)
        s == nextToken(l)
    IN  IF s.tok.type \in {"EOF", "ILLEGAL"} THEN <<at.pos>>
        ELSE <<at.pos>> \o StartsFrom(s.lexer)

Starts == StartsFrom(NewLexer(last.text))

\* C23: every token of an accepted text carries the line and the column of
\* its first character (of the opening quote, for a string), whatever
\* newlines the token or the text before it contains; the error for an
\* illegal character carries the line and the column of that character.
C23_TokenPositions ==
    last.op = "Read" =>
        /\ last.lexed =>
              \A k \in 1..(Len(last.tokens) - 1) :
                  /\ last.tokens[k].line = LineOf(last.text, Starts[k])
                  /\ last.tokens[k].col = ColOf(last.text, Starts[k])
        /\ (~last.lexed /\ Len(last.lexerr.what) = 1) =>
              /\ last.lexerr.what = <<last.text[Starts[Len(Starts)] + 1]>>
              /\ last.lexerr.nums = <<LineOf(last.text, Starts[Len(Starts)]),
                                      ColOf(last.text, Starts[Len(Starts)])>>

====
